---- MODULE Spec2Model ----
(***************************************************************************)
(* Verification model of lamco-wayland.                                    *)
(*                                                                         *)
(* Part 1: PipeWireManager (crates/lamco-pipewire/src/manager.rs).         *)
(*                                                                         *)
(* The manager's methods connect, create_stream, remove_stream and         *)
(* shutdown take `&mut self`, so calls never overlap; the program counter  *)
(* pc only exposes the intermediate writes of ManagerState that connect    *)
(* and shutdown make.  The capture thread (pw_thread) is the environment:  *)
(* the outcome of its construction, of send_command and of every reply is  *)
(* an input of the action that consumes it.                                *)
(***************************************************************************)
EXTENDS Integers, Sequences, FiniteSets, TLC

VARIABLES
    state,            \* PipeWireManager.state
    thread_manager,   \* PipeWireManager.thread_manager (Option)
    streams,          \* PipeWireManager.streams: id -> StreamHandle
    frame_receivers,  \* PipeWireManager.frame_receivers: id -> the Sender registered
    next_stream_id,   \* PipeWireManager.next_stream_id
    portal_fd,        \* PipeWireManager.portal_fd (Option)
    pc,               \* "idle", inside "connect" / "shutdown", or "return": result handed over
    stream_ids,       \* shutdown's local: ids still to be removed
    warned,           \* shutdown logged a failed remove_stream
    cmds,             \* command channel of the latest capture thread, in send order
    thread_gone,      \* the latest capture thread has dropped its end of the channel
    chan_gen,         \* id -> number of frame channels created for that id so far
    last,             \* history: the latest call, the manager before it, its result
    returned,         \* history: ids returned by successful create_stream calls
    removed,          \* history: ids taken out of the stream map
    \* PortalClipboardSink (crates/lamco-portal/src/clipboard_sink.rs)
    pending_data,     \* PortalClipboardSink.pending_data: mime -> PendingData
    transfer_rx,      \* the SelectionTransfer channel: events sent and not yet received
    rx_taken,         \* PortalClipboardSink.transfer_rx is None (taken by the listener)
    portal_listeners, \* SelectionTransfer listeners the sink had started on transfer_tx
    listener,         \* the spawned task: "unstarted", at "recv", at "write", or "ended"
    event,            \* the task's locals: the event it handles and the data it looked up
    portal_calls,     \* the portal calls the task made, in call order
    now,              \* std::time::Instant::now(), in seconds
    next_serial,      \* the serial of the portal's next SelectionTransfer signal
    sink_last,        \* history: the latest step of the sink and the pending map before it
    \* PortalManager::create_session (crates/lamco-portal/src/lib.rs)
    step,             \* "idle", or the portal call create_session is about to make
    remote_desktop_session, \* create_session's local: the session object (Option)
    selected,         \* start_session's local: the streams of the start response (Option)
    portal_log,       \* the calls the portal received, in order
    invocations,      \* history: each create_session call, its argument and its result
    \* BitrateController (crates/lamco-pipewire/src/bitrate.rs)
    config,           \* BitrateController.config; None until new() has returned
    current_bitrate,  \* BitrateController.current_bitrate, a u32 in two 16-bit limbs
    frame_history,    \* BitrateController.frame_history, oldest record first
    congestion_level, \* BitrateController.congestion_level, in thousandths
    skip_counter,     \* BitrateController.skip_counter
    stats,            \* BitrateController.stats: the counters of BitrateStats
    stretch_calls,    \* ghost: should_skip_frame calls of the current congested stretch
    found_calls,      \* ghost: consecutive should_skip_frame calls that found congestion
    calls,            \* ghost: the number of calls made on the controller
    ctrl_last,        \* history: the latest call of the controller and its result
    \* DamageTracker (crates/lamco-pipewire/src/damage.rs)
    regions,          \* DamageTracker.regions, in Vec order
    full_damage_threshold, \* DamageTracker.full_damage_threshold, in hundredths
    merge_distance,   \* DamageTracker.merge_distance
    enable_merging,   \* DamageTracker.enable_merging
    max_regions,      \* DamageTracker.max_regions
    damage_stats,     \* DamageTracker.stats: the counters of DamageStats
    since_clear,      \* ghost: the add_region calls made since the tracker was empty
    tracker_calls,    \* ghost: the number of calls that changed the tracker
    dmg_last,         \* history: the latest call of the tracker and its result
    \* CursorExtractor (crates/lamco-pipewire/src/cursor.rs)
    current,          \* CursorExtractor.current: the CursorInfo, without its timestamp
    previous_position, \* CursorExtractor.previous_position
    bitmap_cache,     \* CursorExtractor.bitmap_cache: <<serial, bitmap>> pairs in Vec order
    max_cache_entries, \* CursorExtractor.max_cache_entries
    cursor_stats,     \* CursorExtractor.stats: the counters of CursorStats
    issued,           \* ghost: every <<serial, bitmap>> pair update_bitmap issued, in order
    cursor_calls,     \* ghost: the number of calls that changed the extractor
    cursor_last,      \* history: the latest call of the extractor and its result
    \* PortalClipboardSink::write_file (crates/lamco-portal/src/clipboard_sink.rs)
    downloads,        \* the downloads directory: the files the sink created, name -> content
    others,           \* the downloads directory: how many names another program took
    writers,          \* the write_file calls in progress: their position and locals
    write_calls,      \* ghost: the number of write_file calls made
    created,          \* ghost: each File::create made, and the content it truncated
    \* percent_decode (crates/lamco-portal/src/clipboard_sink.rs)
    decode_call,      \* history: the latest percent_decode call: its input, its result, the path encoded
    \* the transport FD (remote_desktop.rs, lib.rs, session.rs of lamco-portal)
    fd_opened,        \* history: the FDs OpenPipeWireRemote handed out
    fd_closes,        \* history: the close calls made on transport FDs, in order
    handles,          \* session id -> the PortalSessionHandle the caller got: its fd, and held / closed / dropped
    \* the file cache (crates/lamco-portal/src/clipboard_sink.rs)
    cached_files,     \* PortalClipboardSink.cached_files: the paths, by index
    reported,         \* history: the list the latest get_file_list returned, with the path behind each entry
    cache_last        \* history: the latest get_file_list or read_file_chunk call and its result

manager_vars == <<state, thread_manager, streams, frame_receivers, next_stream_id,
                  portal_fd, pc, stream_ids, warned, cmds, thread_gone, chan_gen,
                  last, returned, removed>>

sink_vars == <<pending_data, transfer_rx, rx_taken, portal_listeners, listener,
               event, portal_calls, now, next_serial, sink_last>>

session_vars == <<step, remote_desktop_session, selected, portal_log, invocations>>

ctrl_vars == <<config, current_bitrate, frame_history, congestion_level, skip_counter,
               stats, stretch_calls, found_calls, calls, ctrl_last>>

damage_vars == <<regions, full_damage_threshold, merge_distance, enable_merging,
                 max_regions, damage_stats, since_clear, tracker_calls, dmg_last>>

cursor_vars == <<current, previous_position, bitmap_cache, max_cache_entries,
                 cursor_stats, issued, cursor_calls, cursor_last>>

file_vars == <<downloads, others, writers, write_calls, created>>

uri_vars == <<decode_call>>

fd_vars == <<fd_opened, fd_closes, handles>>

cache_vars == <<cached_files, reported, cache_last>>

vars == <<manager_vars, sink_vars, session_vars, ctrl_vars, damage_vars, cursor_vars,
          file_vars,
          uri_vars,
          fd_vars,
          cache_vars>>

\* What the methods of one component leave alone.
outside_manager == <<sink_vars, session_vars, ctrl_vars, damage_vars, cursor_vars, file_vars,
    uri_vars,
    fd_vars,
    cache_vars>>

outside_sink == <<manager_vars, session_vars, ctrl_vars, damage_vars, cursor_vars, file_vars,
    uri_vars,
    fd_vars,
    cache_vars>>

outside_session == <<manager_vars, sink_vars, ctrl_vars, damage_vars, cursor_vars, file_vars,
    uri_vars,
    fd_vars,
    cache_vars>>

outside_ctrl == <<manager_vars, sink_vars, session_vars, damage_vars, cursor_vars, file_vars,
    uri_vars,
    fd_vars,
    cache_vars>>

outside_damage == <<manager_vars, sink_vars, session_vars, ctrl_vars, cursor_vars, file_vars,
    uri_vars,
    fd_vars,
    cache_vars>>

outside_cursor == <<manager_vars, sink_vars, session_vars, ctrl_vars, damage_vars, file_vars,
    uri_vars,
    fd_vars,
    cache_vars>>

outside_file == <<manager_vars, sink_vars, session_vars, ctrl_vars, damage_vars, cursor_vars,
    uri_vars,
    fd_vars,
    cache_vars>>

outside_uri == <<manager_vars, sink_vars, session_vars, ctrl_vars, damage_vars,
    cursor_vars, file_vars,
    fd_vars,
    cache_vars>>

outside_fd == <<manager_vars, sink_vars, session_vars, ctrl_vars, damage_vars,
    cursor_vars, file_vars, uri_vars,
    cache_vars>>

outside_session_and_fd == <<manager_vars, sink_vars, ctrl_vars, damage_vars, cursor_vars,
    file_vars, uri_vars,
    cache_vars>>

outside_cache == <<manager_vars, sink_vars, session_vars, ctrl_vars, damage_vars,
    cursor_vars, file_vars, uri_vars, fd_vars>>

\* ---------------------------------------------------------------- bounds
MaxIds == 2

MaxChans == 2

max_streams == 1

\* ---------------------------------------------------------------- inputs
FDs == {3, 4}

\* The portal's stream descriptors; the caller creates its streams in the
\* portal's order, so the next create_stream passes the descriptor at the
\* position of the next stream id.
StreamInfos ==
    { [node_id |-> 42 + next_stream_id,
       position |-> <<1920 * next_stream_id, 0>>,
       size |-> IF next_stream_id % 2 = 0 THEN <<1920, 1080>> ELSE <<1280, 720>>,
       source_type |-> IF next_stream_id % 2 = 0 THEN "Monitor" ELSE "Window"] }

\* Ids a caller passes: allocated ones and ones not (or not yet) allocated.
StreamIdArgs == 0 .. (MaxIds - 1)

\* PipeWireThreadManager::new(fd) returns Ok or Err.
ThreadNewOutcomes == {"ok", "err"}

\* send_command returns Ok or Err.
SendOutcomes == {"sent", "failed"}

\* A command with a reply channel: the send fails, or the command is sent and
\* the reply channel closes, or it carries Err, or it carries Ok.
ThreadOutcomes == {"send_failed", "reply_closed", "reply_err", "reply_ok"}

\* ---------------------------------------------------------------- values
None == <<>>

Some(x) == <<x>>

ManagerState == {"Disconnected", "Connecting", "Connected", "Error", "ShuttingDown"}

Ok(v) == [kind |-> "Ok", val |-> v]

Err(k, v) == [kind |-> k, val |-> v]

Pending == [kind |-> "Pending", val |-> 0]

EmptyMap == [x \in {} |-> x]

MapInsert(m, k, v) == [x \in (DOMAIN m) \cup {k} |-> IF x = k THEN v ELSE m[x]]

MapRemove(m, k) == [x \in (DOMAIN m) \ {k} |-> m[x]]

StreamHandle(id, info) ==
    [id |-> id, node_id |-> info.node_id, position |-> info.position,
     size |-> info.size, source_type |-> info.source_type]

\* The manager's fields, its command channel and the channels made so far,
\* taken when a call starts.
Snapshot ==
    [state |-> state, thread_manager |-> thread_manager, streams |-> streams,
     frame_receivers |-> frame_receivers, next_stream_id |-> next_stream_id,
     portal_fd |-> portal_fd, cmds |-> cmds, chan_gen |-> chan_gen]

Call(op, arg, ret) == [op |-> op, arg |-> arg, pre |-> Snapshot, ret |-> ret]

NoCall == [op |-> "none", arg |-> 0, pre |-> None, ret |-> Pending]

\* mpsc::channel(): the channels made for key id are numbered 1, 2, ...; the
\* new one is the next number.
new_channel(id) == chan_gen[id] + 1

RECURSIVE Sum(_, _)
Sum(f, S) == IF S = {} THEN 0
             ELSE LET x == CHOOSE y \in S : TRUE IN f[x] + Sum(f, S \ {x})

\* Channels made by frame_receiver: all of them but one per allocated stream id.
ReceiverChans == Sum(chan_gen, DOMAIN chan_gen) - next_stream_id

\* A channel is closed for its receivers once its Sender is dropped, and the
\* only Sender of channel g of key id is the value the map holds for id.
Closed(id, g) == ~(id \in DOMAIN frame_receivers /\ frame_receivers[id] = g)

\* ---------------------------------------------------------------- new
NoStep == [op |-> "none"]

\* PortalClipboardSink::new: empty maps, both ends of the transfer channel held
\* by the sink, no task spawned.
SinkNew ==
    /\ pending_data = EmptyMap
    /\ transfer_rx = <<>>
    /\ rx_taken = FALSE
    /\ portal_listeners = 0
    /\ listener = "unstarted"
    /\ event = None
    /\ portal_calls = <<>>
    /\ now = 0
    /\ next_serial = 1
    /\ sink_last = NoStep

\* PortalManager::new: no session requested yet.
PortalManagerNew ==
    /\ step = "idle"
    /\ remote_desktop_session = None
    /\ selected = None
    /\ portal_log = <<>>
    /\ invocations = <<>>

\* No controller exists until new() returns one.
NoController ==
    /\ config = None
    /\ current_bitrate = <<0, 0>>
    /\ frame_history = <<>>
    /\ congestion_level = 0
    /\ skip_counter = 0
    /\ stats = [frames_recorded |-> 0, frames_dropped |-> 0, frames_skipped |-> 0,
                bitrate_increases |-> 0, bitrate_decreases |-> 0]
    /\ stretch_calls = 0
    /\ found_calls = 0
    /\ calls = 0
    /\ ctrl_last = NoStep

\* ghost: the add_region calls since the regions were last cleared, as a bag
\* of indexes of RegionInputs; whether one of them pushed without merging;
\* whether one of them was dropped; whether mark_full_damage did the clearing
NoneAdded == [added |-> EmptyMap, unmerged |-> FALSE, dropped |-> FALSE, marked |-> FALSE]

\* history: the latest call that changed the tracker, and the latest
\* should_full_update question and answer since then
TrackerCall(op, arg) == [op |-> op, arg |-> arg, asked |-> None, answer |-> None]

\* DamageTracker::new()
DamageTrackerNew ==
    /\ regions = <<>>
    /\ full_damage_threshold = 50
    /\ merge_distance = 32
    /\ enable_merging = TRUE
    /\ max_regions = 64
    /\ damage_stats = [frames_processed |-> 0, full_damage_frames |-> 0, total_regions |-> 0]
    /\ since_clear = NoneAdded
    /\ tracker_calls = 0
    /\ dmg_last = TrackerCall("new", None)

\* CursorInfo::default(); the timestamp (Instant::now()) is not modelled
CursorInfo ==
    [position |-> <<0, 0>>, hotspot |-> <<0, 0>>, size |-> <<0, 0>>, bitmap |-> None,
     visible |-> TRUE, serial |-> 0]

\* history: a call of the extractor, its argument, and "ok", "panic" or the
\* value it returned
CursorCall(op, arg, ret) == [op |-> op, arg |-> arg, ret |-> ret]

\* CursorExtractor::new()
CursorExtractorNew ==
    /\ current = CursorInfo
    /\ previous_position = <<0, 0>>
    /\ bitmap_cache = <<>>
    /\ max_cache_entries = 8
    /\ cursor_stats = [position_updates |-> 0, bitmap_updates |-> 0, visibility_changes |-> 0]
    /\ issued = <<>>
    /\ cursor_calls = 0
    /\ cursor_last = CursorCall("new", None, "ok")

\* The tasks that may call write_file on the shared sink.
Tasks == {1, 2}

\* A task that is not inside write_file.
Idle == [pc |-> "idle", path |-> None, data |-> None, final_path |-> None, result |-> None]

\* The downloads directory before anything was written to it.
NoDownloads ==
    /\ downloads = EmptyMap
    /\ others = 0
    /\ writers = [t \in Tasks |-> Idle]
    /\ write_calls = 0
    /\ created = <<>>

\* No percent_decode call was made yet.
NothingDecoded == decode_call = [path |-> None, input |-> <<>>, output |-> <<>>]

\* No session was started yet.
NoTransportFd ==
    /\ fd_opened = {}
    /\ fd_closes = <<>>
    /\ handles = EmptyMap

\* A new sink: nothing cached, get_file_list not called yet.
NoFileList ==
    /\ cached_files = <<>>
    /\ reported = None
    /\ cache_last = [op |-> "none"]

Init ==
    /\ NoFileList
    /\ NoTransportFd
    /\ NothingDecoded
    /\ CursorExtractorNew
    /\ NoDownloads
    /\ DamageTrackerNew
    /\ SinkNew
    /\ PortalManagerNew
    /\ NoController
    /\ state = "Disconnected"
    /\ thread_manager = None
    /\ streams = EmptyMap
    /\ frame_receivers = EmptyMap
    /\ next_stream_id = 0
    /\ portal_fd = None
    /\ pc = "idle"
    /\ stream_ids = {}
    /\ warned = FALSE
    /\ cmds = <<>>
    /\ thread_gone = FALSE
    /\ chan_gen = [id \in StreamIdArgs |-> 0]
    /\ last = NoCall
    /\ returned = <<>>
    /\ removed = {}

\* ---------------------------------------------------------------- connect
connect_never_rejects(s) == FALSE

connect_rejects_connecting(s) == s = "Connecting"

connect_rejects(s) == s = "Connected"

ConnectCall(fd) ==
    /\ pc = "idle"
    /\ IF connect_rejects(state)
       THEN /\ last' = Call("connect", fd, Err("InvalidState", "Already connected"))
            /\ pc' = "return"
            /\ UNCHANGED <<state, portal_fd>>
       ELSE /\ state' = "Connecting"
            /\ portal_fd' = Some(fd)
            /\ pc' = "connect"
            /\ last' = Call("connect", fd, Pending)
    /\ UNCHANGED <<thread_manager, streams, frame_receivers, next_stream_id,
                   stream_ids, warned, cmds, chan_gen, returned, removed>>
    /\ UNCHANGED thread_gone
    /\ UNCHANGED outside_manager

\* PipeWireThreadManager::new(fd)? and everything after it.  A new capture
\* thread comes with a new, empty command channel.
ConnectThread(outcome) ==
    /\ pc = "connect"
    /\ pc' = "return"
    /\ IF outcome = "ok"
       THEN /\ thread_manager' = Some([fd |-> portal_fd[1]])
            /\ cmds' = <<>>
            /\ thread_gone' = FALSE
            /\ state' = "Connected"
            /\ last' = [last EXCEPT !.ret = Ok(0)]
       ELSE /\ last' = [last EXCEPT !.ret = Err("ThreadInitFailed", 0)]
            /\ UNCHANGED <<thread_manager, cmds, thread_gone, state>>
    /\ UNCHANGED <<streams, frame_receivers, next_stream_id, portal_fd,
                   stream_ids, warned, chan_gen, returned, removed>>
    /\ UNCHANGED outside_manager

\* ---------------------------------------------------------------- create_stream
create_stream_rejects_disconnected(s) == s = "Disconnected"

create_stream_rejects(s) == s # "Connected"

stream_limit_exceeded(count) == count > max_streams

stream_limit_reached(count) == count >= max_streams

next_id_same(id) == id

next_id_after(id) == id + 1

\* The command channel is a blocking-send channel: a send fails only when
\* the capture thread has dropped its receiver, and then every later send to
\* that thread fails too.
send_possible(outcome) == (thread_manager # None /\ thread_gone) => outcome = "send_failed"

gone_after(outcome) == thread_gone \/ (thread_manager # None /\ outcome = "send_failed")

CreateStreamCmd(stream_id, info) ==
    [cmd |-> "CreateStream", stream_id |-> stream_id, node_id |-> info.node_id]

\* The error create_stream returns for a thread outcome, None when it goes on.
create_stream_failure(outcome) ==
    IF thread_manager = None THEN None
    ELSE IF outcome = "send_failed" THEN Some(Err("SendFailed", 0))
    ELSE IF outcome = "reply_closed" THEN Some(Err("ThreadCommunicationFailed", 0))
    ELSE IF outcome = "reply_err" THEN Some(Err("StreamCreationFailed", 0))
    ELSE None

CreateStream(info) ==
    /\ pc = "idle"
    /\ IF create_stream_rejects(state)
       THEN /\ last' = Call("create_stream", info, Err("InvalidState", "Not connected"))
            /\ UNCHANGED <<streams, frame_receivers, next_stream_id, cmds,
                           thread_gone, chan_gen, returned>>
       ELSE IF stream_limit_reached(Cardinality(DOMAIN streams))
       THEN /\ last' = Call("create_stream", info, Err("TooManyStreams", max_streams))
            /\ UNCHANGED <<streams, frame_receivers, next_stream_id, cmds,
                           thread_gone, chan_gen, returned>>
       ELSE /\ next_stream_id < MaxIds
            /\ \E outcome \in ThreadOutcomes :
                 LET stream_id == next_stream_id
                     chan == new_channel(stream_id)
                     handle == StreamHandle(stream_id, info)
                     failure == create_stream_failure(outcome)
                 IN  /\ send_possible(outcome)
                     /\ thread_gone' = gone_after(outcome)
                     /\ next_stream_id' = next_id_after(next_stream_id)
                     /\ chan_gen' = [chan_gen EXCEPT ![stream_id] = chan]
                     /\ frame_receivers' = MapInsert(frame_receivers, stream_id, chan)
                     /\ cmds' = IF thread_manager # None /\ outcome # "send_failed"
                                THEN Append(cmds, CreateStreamCmd(stream_id, info))
                                ELSE cmds
                     /\ IF failure # None
                        THEN /\ last' = Call("create_stream", info, failure[1])
                             /\ UNCHANGED <<streams, returned>>
                        ELSE /\ streams' = MapInsert(streams, stream_id, handle)
                             /\ returned' = Append(returned, stream_id)
                             /\ last' = Call("create_stream", info, Ok(handle))
    /\ pc' = "return"
    /\ UNCHANGED <<state, thread_manager, portal_fd, stream_ids, warned, removed>>
    /\ UNCHANGED outside_manager

\* ---------------------------------------------------------------- frame_receiver
only_new_sender(m, id, chan) == [x \in {id} |-> chan]

keep_existing_sender(m, id, chan) == IF id \in DOMAIN m THEN m ELSE MapInsert(m, id, chan)

insert_sender(m, id, chan) == MapInsert(m, id, chan)

FrameReceiver(id) ==
    /\ pc = "idle"
    /\ ReceiverChans < MaxChans
    /\ LET chan == new_channel(id)
       IN  /\ chan_gen' = [chan_gen EXCEPT ![id] = chan]
           /\ frame_receivers' = insert_sender(frame_receivers, id, chan)
           /\ last' = Call("frame_receiver", id, [kind |-> "Some", val |-> chan])
    /\ pc' = "return"
    /\ UNCHANGED <<state, thread_manager, streams, next_stream_id, portal_fd,
                   stream_ids, warned, cmds, returned, removed>>
    /\ UNCHANGED thread_gone
    /\ UNCHANGED outside_manager

\* ---------------------------------------------------------------- remove_stream
remove_stream_never_missing(id) == FALSE

remove_stream_missing(id) == id \notin DOMAIN streams

DestroyStreamCmd(stream_id) ==
    [cmd |-> "DestroyStream", stream_id |-> stream_id, node_id |-> 0]

\* The value remove_stream(id) returns.
remove_stream_ret(id, outcome) ==
    IF remove_stream_missing(id) THEN Err("StreamNotFound", id)
    ELSE IF thread_manager = None THEN Ok(0)
    ELSE IF outcome = "send_failed" THEN Err("SendFailed", 0)
    ELSE IF outcome = "reply_err" THEN Err("DestroyFailed", 0)
    ELSE Ok(0)

\* What remove_stream(id) does to the manager.
remove_stream_body(id, outcome) ==
    IF remove_stream_missing(id)
    THEN UNCHANGED <<streams, frame_receivers, cmds, thread_gone, removed>>
    ELSE /\ send_possible(outcome)
         /\ thread_gone' = gone_after(outcome)
         /\ streams' = MapRemove(streams, id)
         /\ removed' = IF id \in DOMAIN streams THEN removed \cup {id} ELSE removed
         /\ frame_receivers' = MapRemove(frame_receivers, id)
         /\ cmds' = IF thread_manager # None /\ outcome # "send_failed"
                    THEN Append(cmds, DestroyStreamCmd(id))
                    ELSE cmds

RemoveStream(id) ==
    /\ pc = "idle"
    /\ \E outcome \in (IF remove_stream_missing(id) THEN {"reply_ok"} ELSE ThreadOutcomes) :
          /\ remove_stream_body(id, outcome)
          /\ last' = Call("remove_stream", id, remove_stream_ret(id, outcome))
    /\ pc' = "return"
    /\ UNCHANGED <<state, thread_manager, next_stream_id, portal_fd,
                   stream_ids, warned, chan_gen, returned>>
    /\ UNCHANGED outside_manager

\* ---------------------------------------------------------------- shutdown
shutdown_no_stream_ids(m) == {}

shutdown_stream_ids(m) == DOMAIN m

ShutdownCmd == [cmd |-> "Shutdown", stream_id |-> 0, node_id |-> 0]

ShutdownCall ==
    /\ pc = "idle"
    /\ state' = "ShuttingDown"
    /\ stream_ids' = shutdown_stream_ids(streams)
    /\ warned' = FALSE
    /\ pc' = "shutdown"
    /\ last' = Call("shutdown", 0, Pending)
    /\ UNCHANGED <<thread_manager, streams, frame_receivers, next_stream_id,
                   portal_fd, cmds, chan_gen, returned, removed>>
    /\ UNCHANGED thread_gone
    /\ UNCHANGED outside_manager

\* One iteration of the loop over stream_ids; warned records the warn! of a
\* failed remove_stream.
ShutdownRemove(id, outcome) ==
    /\ pc = "shutdown"
    /\ id \in stream_ids
    /\ remove_stream_body(id, outcome)
    /\ stream_ids' = stream_ids \ {id}
    /\ warned' = (warned \/ remove_stream_ret(id, outcome).kind # "Ok")
    /\ UNCHANGED <<state, thread_manager, next_stream_id, portal_fd, pc,
                   chan_gen, last, returned>>
    /\ UNCHANGED outside_manager

ShutdownFinish(send) ==
    /\ pc = "shutdown"
    /\ stream_ids = {}
    /\ (thread_manager # None /\ thread_gone) => send = "failed"
    /\ cmds' = IF thread_manager # None /\ send = "sent"
               THEN Append(cmds, ShutdownCmd)
               ELSE cmds
    /\ thread_gone' = (thread_gone \/ (thread_manager # None /\ send = "failed"))
    /\ thread_manager' = None
    /\ state' = "Disconnected"
    /\ pc' = "return"
    /\ last' = [last EXCEPT !.ret = Ok(0)]
    /\ UNCHANGED <<streams, frame_receivers, next_stream_id, portal_fd,
                   stream_ids, warned, chan_gen, returned, removed>>
    /\ UNCHANGED outside_manager

\* ---------------------------------------------------------------- caller
\* The caller takes the result of the call; the next call can start.
Return ==
    /\ pc = "return"
    /\ pc' = "idle"
    /\ last' = NoCall
    /\ UNCHANGED <<state, thread_manager, streams, frame_receivers, next_stream_id,
                   portal_fd, stream_ids, warned, cmds, chan_gen,
                   returned, removed>>
    /\ UNCHANGED thread_gone
    /\ UNCHANGED outside_manager

\* A StreamHandle is plain data (Clone, no Drop impl) and the Receiver the
\* caller holds is the far end of a channel whose Sender stays in the map:
\* dropping either runs no code of the manager.
HandlesHeld == {returned[i] : i \in DOMAIN returned}

ReceiversHeld ==
    {id \in DOMAIN chan_gen : chan_gen[id] > (IF id < next_stream_id THEN 1 ELSE 0)}

DropHandle(id) ==
    /\ pc = "idle"
    /\ id \in HandlesHeld
    /\ last' = Call("drop_handle", id, Ok(0))
    /\ pc' = "return"
    /\ UNCHANGED <<state, thread_manager, streams, frame_receivers, next_stream_id,
                   portal_fd, stream_ids, warned, cmds, chan_gen,
                   returned, removed>>
    /\ UNCHANGED thread_gone
    /\ UNCHANGED outside_manager

DropReceiver(id) ==
    /\ pc = "idle"
    /\ id \in ReceiversHeld
    /\ last' = Call("drop_receiver", id, Ok(0))
    /\ pc' = "return"
    /\ UNCHANGED <<state, thread_manager, streams, frame_receivers, next_stream_id,
                   portal_fd, stream_ids, warned, cmds, chan_gen,
                   returned, removed>>
    /\ UNCHANGED thread_gone
    /\ UNCHANGED outside_manager

\* ---------------------------------------------------------------- specification
Next ==
    \/ \E fd \in FDs : ConnectCall(fd)
    \/ \E outcome \in ThreadNewOutcomes : ConnectThread(outcome)
    \/ \E info \in StreamInfos : CreateStream(info)
    \/ \E id \in StreamIdArgs : FrameReceiver(id)
    \/ \E id \in StreamIdArgs : RemoveStream(id)
    \/ ShutdownCall
    \/ \E id \in stream_ids, outcome \in ThreadOutcomes : ShutdownRemove(id, outcome)
    \/ \E send \in SendOutcomes : ShutdownFinish(send)
    \/ Return

Spec == Init /\ [][Next]_vars

\* The manager together with a caller that drops what it was handed.
CallerNext ==
    \/ Next
    \/ \E id \in StreamIdArgs : DropHandle(id)
    \/ \E id \in StreamIdArgs : DropReceiver(id)

CallerSpec == Init /\ [][CallerNext]_vars

TypeOK ==
    /\ state \in ManagerState
    /\ pc \in {"idle", "connect", "shutdown", "return"}
    /\ next_stream_id \in 0 .. MaxIds
    /\ DOMAIN streams \subseteq 0 .. (MaxIds - 1)
    /\ warned \in BOOLEAN

\* ================================================================ clipboard sink
\* ---------------------------------------------------------------- bounds
MaxSerial == 2

MaxTime == 47

MaxListeners == 2

\* ---------------------------------------------------------------- inputs
Mimes == {"text/plain", "image/png"}

Bytes == {"hi", "yo"}

\* Seconds that pass between two steps.
Elapsed == {15, 16}

\* A portal call returns Ok or Err.
PortalOutcomes == {"ok", "err"}

\* ---------------------------------------------------------------- values
stale_threshold == 30

PendingData(data, queued_at) == [data |-> data, queued_at |-> queued_at]

SelectionTransferEvent(mime_type, serial) == [mime_type |-> mime_type, serial |-> serial]

\* The two calls the task makes.  mime and ret are not parameters of the
\* portal call: they record which event the call answers and what it returned.
SelectionWrite(serial, data, mime, ret) ==
    [call |-> "SelectionWrite", serial |-> serial, data |-> data, mime |-> mime,
     ret |-> ret]

SelectionWriteDone(serial, success, mime) ==
    [call |-> "SelectionWriteDone", serial |-> serial, data |-> success, mime |-> mime,
     ret |-> "ignored"]

\* ---------------------------------------------------------------- start_transfer_listener
start_transfer_listener(outcome) ==
    /\ IF outcome = "err"
       THEN /\ sink_last' = [op |-> "start_transfer_listener", ret |-> "Err"]
            /\ UNCHANGED <<portal_listeners, rx_taken, listener>>
       ELSE /\ portal_listeners' = portal_listeners + 1
            /\ IF rx_taken
               THEN /\ sink_last' = [op |-> "start_transfer_listener",
                                     ret |-> "transfer listener already started"]
                    /\ UNCHANGED <<rx_taken, listener>>
               ELSE /\ rx_taken' = TRUE
                    /\ listener' = "recv"
                    /\ sink_last' = [op |-> "start_transfer_listener", ret |-> "Ok"]
    /\ UNCHANGED <<pending_data, transfer_rx, event, portal_calls, now, next_serial>>
    /\ UNCHANGED outside_sink

\* ---------------------------------------------------------------- the portal
\* The portal emits SelectionTransfer{mime, serial}; a started listener sends
\* it on transfer_tx.  How many copies arrive when several listeners were
\* started is decided in clipboard.rs; the event is taken to arrive once.
SelectionTransfer(mime) ==
    /\ portal_listeners > 0
    /\ next_serial <= MaxSerial
    /\ transfer_rx' = Append(transfer_rx, SelectionTransferEvent(mime, next_serial))
    /\ next_serial' = next_serial + 1
    /\ sink_last' = NoStep
    /\ UNCHANGED <<pending_data, rx_taken, portal_listeners, listener, event,
                   portal_calls, now>>
    /\ UNCHANGED outside_sink

Tick(d) ==
    /\ now + d <= MaxTime
    /\ now' = now + d
    /\ sink_last' = NoStep
    /\ UNCHANGED <<pending_data, transfer_rx, rx_taken, portal_listeners, listener,
                   event, portal_calls, next_serial>>
    /\ UNCHANGED outside_sink

\* ---------------------------------------------------------------- the spawned task
\* transfer_rx.recv() and the lookup of the pending data; with no data the
\* task signals the failure and goes back to recv.
lookup(pending, mime_type) ==
    IF mime_type \in DOMAIN pending THEN Some(pending[mime_type].data) ELSE None

ListenerRecv ==
    /\ listener = "recv"
    /\ transfer_rx # <<>>
    /\ LET ev == Head(transfer_rx)
           data == lookup(pending_data, ev.mime_type)
       IN  /\ transfer_rx' = Tail(transfer_rx)
           /\ sink_last' = [op |-> "recv", event |-> ev, pending |-> pending_data]
           /\ IF data # None
              THEN /\ event' = Some([mime_type |-> ev.mime_type, serial |-> ev.serial,
                                     data |-> data[1]])
                   /\ listener' = "write"
                   /\ UNCHANGED portal_calls
              ELSE /\ portal_calls' =
                        Append(portal_calls, SelectionWriteDone(ev.serial, FALSE, ev.mime_type))
                   /\ UNCHANGED <<event, listener>>
    /\ UNCHANGED <<pending_data, rx_taken, portal_listeners, now, next_serial>>
    /\ UNCHANGED outside_sink

ends_on_write_error(outcome) == IF outcome = "ok" THEN "recv" ELSE "ended"

\* Where the task goes after write_selection_data returned.
after_write(outcome) == "recv"

drop_written_always(pending, mime_type, outcome) ==
    [m \in DOMAIN pending \ {mime_type} |-> pending[m]]

keep_written(pending, mime_type, outcome) == pending

\* The pending map after write_selection_data returned.
pending_after_write(pending, mime_type, outcome) ==
    IF outcome = "ok" THEN MapRemove(pending, mime_type) ELSE pending

ListenerWrite(outcome) ==
    /\ listener = "write"
    /\ LET ev == event[1]
       IN  /\ portal_calls' =
                 Append(portal_calls,
                        SelectionWrite(ev.serial, ev.data, ev.mime_type, outcome))
           /\ pending_data' = pending_after_write(pending_data, ev.mime_type, outcome)
           /\ sink_last' = [op |-> "write_selection_data", event |-> ev,
                            outcome |-> outcome, pending |-> pending_data]
    /\ listener' = after_write(outcome)
    /\ event' = None
    /\ UNCHANGED <<transfer_rx, rx_taken, portal_listeners, now, next_serial>>
    /\ UNCHANGED outside_sink

\* ---------------------------------------------------------------- write_clipboard
never_stale(age) == FALSE

stale_from_threshold(age) == age >= stale_threshold

stale(age) == age > stale_threshold

keep_queued(pending, mime_type, data, at) ==
    IF mime_type \in DOMAIN pending THEN pending
    ELSE MapInsert(pending, mime_type, PendingData(data, at))

insert_pending(pending, mime_type, data, at) ==
    MapInsert(pending, mime_type, PendingData(data, at))

queue_pending_data(pending, mime_type, data, at) ==
    LET inserted == insert_pending(pending, mime_type, data, at)
    IN  [m \in {k \in DOMAIN inserted : ~stale(at - inserted[k].queued_at)} |-> inserted[m]]

write_clipboard(mime_type, data) ==
    /\ pending_data' = queue_pending_data(pending_data, mime_type, data, now)
    /\ sink_last' = [op |-> "write_clipboard", mime_type |-> mime_type, data |-> data,
                     at |-> now, pending |-> pending_data]
    /\ UNCHANGED <<transfer_rx, rx_taken, portal_listeners, listener, event,
                   portal_calls, now, next_serial>>
    /\ UNCHANGED outside_sink

\* ---------------------------------------------------------------- specification
\* The sink, its task and the portal, with the clock stopped.
SinkNext ==
    \/ /\ portal_listeners < MaxListeners
       /\ \E outcome \in PortalOutcomes : start_transfer_listener(outcome)
    \/ \E mime \in Mimes : SelectionTransfer(mime)
    \/ ListenerRecv
    \/ \E outcome \in PortalOutcomes : ListenerWrite(outcome)
    \/ \E mime \in Mimes, data \in Bytes : write_clipboard(mime, data)

SinkSpec == Init /\ [][SinkNext]_vars

\* tokio runs a spawned task that can make a step.
SinkLiveSpec ==
    /\ Init
    /\ [][SinkNext]_vars
    /\ WF_vars(ListenerRecv)
    /\ WF_vars(\E outcome \in PortalOutcomes : ListenerWrite(outcome))

\* write_clipboard calls with time passing between them.
SinkClockNext ==
    \/ \E d \in Elapsed : Tick(d)
    \/ \E mime \in Mimes, data \in Bytes : write_clipboard(mime, data)

SinkClockSpec == Init /\ [][SinkClockNext]_vars

\* ================================================================ portal session
\* ---------------------------------------------------------------- bounds
MaxSessions == 2

\* ---------------------------------------------------------------- inputs
\* create_session's clipboard argument: Option<&ClipboardManager>.
ClipboardArgs == {None, Some("clipboard_mgr")}

\* A portal method behind a fresh proxy: the proxy cannot be made (nothing is
\* sent), or the call is made and fails, or it succeeds.
ProxyCallOutcomes == {"proxy_err", "err", "ok"}

\* Start: as above, or the call is answered by a response that carries the
\* user's refusal.
StartOutcomes == {"proxy_err", "err", "denied", "ok"}

\* The streams of a start response.
StreamLists ==
    { <<>>,
      << [node_id |-> 42, position |-> <<0, 0>>, size |-> <<1920, 1080>>,
          source_type |-> "Monitor"] >> }

\* ---------------------------------------------------------------- values
PortalCall(call) ==
    [call |-> call, session |-> remote_desktop_session, of |-> Len(invocations)]

PortalSessionHandle(session_id, pipewire_fd, stream_info, session) ==
    [session_id |-> session_id, pipewire_fd |-> pipewire_fd, streams |-> stream_info,
     remote_desktop_session |-> Some(session_id), session |-> session]

\* The file descriptor OpenPipeWireRemote hands out for a session.
PipeWireFd(session) == 10 + session

\* ---------------------------------------------------------------- create_session
always_requests_clipboard(clipboard) == TRUE

requests_clipboard(clipboard) == clipboard # None

\* create_session returns ret; failed names what went wrong in the call: the
\* step that failed, "denied" for a refused consent dialog, "no_streams" for
\* an empty start response.
Finish(ret, failed) ==
    /\ invocations' = [invocations EXCEPT ![Len(invocations)].ret = ret,
                                          ![Len(invocations)].failed = @ \cup failed]
    /\ step' = "idle"
    /\ remote_desktop_session' = None
    /\ selected' = None

\* create_session goes on to its next portal call.
Continue(next, failed) ==
    /\ invocations' = [invocations EXCEPT ![Len(invocations)].failed = @ \cup failed]
    /\ step' = next

\* The call is made unless its proxy could not be.
Issue(call, outcome) ==
    portal_log' = IF outcome = "proxy_err" THEN portal_log
                  ELSE Append(portal_log, PortalCall(call))

create_session(session_id, clipboard) ==
    /\ step = "idle"
    /\ session_id = Len(invocations) + 1
    /\ session_id <= MaxSessions
    /\ invocations' = Append(invocations, [session_id |-> session_id,
                                           clipboard |-> clipboard,
                                           ret |-> Pending, failed |-> {}])
    /\ step' = "create_session"
    /\ UNCHANGED <<remote_desktop_session, selected, portal_log>>
    /\ UNCHANGED outside_session

\* self.remote_desktop.create_session()
CreateSession(outcome) ==
    /\ step = "create_session"
    /\ Issue("CreateSession", outcome)
    /\ IF outcome = "ok"
       THEN /\ remote_desktop_session' = Some(Len(invocations))
            /\ Continue("select_devices", {})
            /\ UNCHANGED selected
       ELSE Finish(Err("SessionCreation", "RemoteDesktop session"), {"create_session"})
    /\ UNCHANGED outside_session

\* self.remote_desktop.select_devices(&remote_desktop_session, devices)
SelectDevices(outcome) ==
    /\ step = "select_devices"
    /\ Issue("SelectDevices", outcome)
    /\ IF outcome = "ok"
       THEN /\ Continue("screencast_new", {})
            /\ UNCHANGED <<remote_desktop_session, selected>>
       ELSE Finish(Err("SessionCreation", "Device selection"), {"select_devices"})
    /\ UNCHANGED outside_session

\* Screencast::new().await?
ScreencastNew(outcome) ==
    /\ step = "screencast_new"
    /\ IF outcome = "ok"
       THEN /\ Continue("select_sources", {})
            /\ UNCHANGED <<remote_desktop_session, selected>>
       ELSE Finish(Err("PortalRequest", "ashpd"), {"select_sources"})
    /\ UNCHANGED portal_log
    /\ UNCHANGED outside_session

\* screencast_proxy.select_sources(&remote_desktop_session, ..)
SelectSources(outcome) ==
    /\ step = "select_sources"
    /\ Issue("SelectSources", outcome)
    /\ IF outcome = "ok"
       THEN /\ Continue(IF requests_clipboard(invocations[Len(invocations)].clipboard)
                        THEN "request_clipboard" ELSE "start", {})
            /\ UNCHANGED <<remote_desktop_session, selected>>
       ELSE Finish(Err("SessionCreation", "Source selection"), {"select_sources"})
    /\ UNCHANGED outside_session

\* clipboard_mgr.portal_clipboard().request(&remote_desktop_session): an error
\* is logged and create_session goes on.
RequestClipboard(outcome) ==
    /\ step = "request_clipboard"
    /\ Issue("RequestClipboard", outcome)
    /\ Continue("start", IF outcome = "ok" THEN {} ELSE {"request_clipboard"})
    /\ UNCHANGED <<remote_desktop_session, selected>>
    /\ UNCHANGED outside_session

\* start_session, up to response.response()?
Start(outcome, stream_info) ==
    /\ step = "start"
    /\ Issue("Start", outcome)
    /\ IF outcome = "ok"
       THEN /\ selected' = Some(stream_info)
            /\ Continue("open_pipe_wire_remote", {})
            /\ UNCHANGED remote_desktop_session
       ELSE Finish(Err("SessionCreation", "Session start"),
                   IF outcome = "denied" THEN {"start", "denied"} ELSE {"start"})
    /\ UNCHANGED outside_session

\* start_session from Screencast::new() on, then the rest of create_session.
\* start_session forgets the OwnedFd it got and returns its number; the
\* number is owned again once it is inside a PortalSessionHandle.
OpenPipeWireRemote(outcome) ==
    /\ step = "open_pipe_wire_remote"
    /\ Issue("OpenPipeWireRemote", outcome)
    /\ LET session_id == invocations[Len(invocations)].session_id
           raw_fd == PipeWireFd(remote_desktop_session[1])
       IN  IF outcome # "ok"
           THEN /\ Finish(Err("SessionCreation", "Session start"), {"open_pipe_wire_remote"})
                /\ UNCHANGED <<fd_opened, handles>>
           ELSE /\ fd_opened' = fd_opened \cup {raw_fd}
                /\ IF selected[1] = <<>>
                   THEN /\ Finish(Err("NoStreamsAvailable", 0), {"no_streams"})
                        /\ UNCHANGED handles
                   ELSE /\ Finish(Ok(PortalSessionHandle(session_id, raw_fd, selected[1],
                                                        remote_desktop_session[1])), {})
                        /\ handles' = MapInsert(handles, session_id,
                                                [pipewire_fd |-> raw_fd, owner |-> "held"])
    /\ UNCHANGED fd_closes
    /\ UNCHANGED outside_session_and_fd

\* ---------------------------------------------------------------- the handle
\* Dropping a PortalSessionHandle drops its OwnedFd, which closes the FD.
drop_handle(id, how) ==
    /\ id \in DOMAIN handles
    /\ handles[id].owner = "held"
    /\ fd_closes' = Append(fd_closes, handles[id].pipewire_fd)
    /\ handles' = [handles EXCEPT ![id].owner = how]
    /\ UNCHANGED fd_opened
    /\ UNCHANGED outside_fd

\* PortalSessionHandle::close(self)
CloseSession(id) == drop_handle(id, "closed")

\* The caller lets the handle go out of scope.
DropSession(id) == drop_handle(id, "dropped")

\* handle.pipewire_fd(): the number, the handle keeps owning the FD.
pipewire_fd(id) == handles[id].pipewire_fd

\* ---------------------------------------------------------------- specification
SessionNext ==
    \/ \E clipboard \in ClipboardArgs : create_session(Len(invocations) + 1, clipboard)
    \/ \E outcome \in ProxyCallOutcomes : CreateSession(outcome)
    \/ \E outcome \in ProxyCallOutcomes : SelectDevices(outcome)
    \/ \E outcome \in PortalOutcomes : ScreencastNew(outcome)
    \/ \E outcome \in PortalOutcomes : SelectSources(outcome)
    \/ \E outcome \in PortalOutcomes : RequestClipboard(outcome)
    \/ \E outcome \in StartOutcomes, stream_info \in StreamLists :
          Start(outcome, stream_info)
    \/ \E outcome \in ProxyCallOutcomes : OpenPipeWireRemote(outcome)

SessionSpec == Init /\ [][SessionNext]_vars

\* Sessions, what the caller does with the handles, and PipeWireManager::connect
\* on the FD of a handle.  manager.rs keeps the number it is given and closes
\* nothing; the capture thread's use of it is in pw_thread.rs.
FdNext ==
    \/ SessionNext
    \/ \E id \in 1 .. MaxSessions : CloseSession(id)
    \/ \E id \in 1 .. MaxSessions : DropSession(id)
    \/ \E id \in {h \in DOMAIN handles : handles[h].owner = "held"} :
          ConnectCall(pipewire_fd(id))
    \/ \E outcome \in ThreadNewOutcomes : ConnectThread(outcome)
    \/ Return

FdSpec == Init /\ [][FdNext]_vars

\* ------------------------------------------------------------------------
\* Part 4: BitrateController (crates/lamco-pipewire/src/bitrate.rs)
\*
\* Bitrates are u32 values, written here as two 16-bit limbs <<high, low>>
\* so that sums beyond 2^32 can be computed and wrapped.  The congestion
\* level (f64 in [0, 1]) is held in thousandths and computed exactly, and
\* the f32 products of adjust_bitrate are computed exactly and truncated:
\* floating-point rounding is not modelled.  Of BitrateStats the model keeps
\* the five counters; total_bytes, avg_encode_time_us, avg_frame_size and
\* estimated_bitrate_kbps are written by the controller and never read back.
\* Instant::now() enters as the elapsed time record_frame reads.

\* bounds of the specifications: the calls made on one controller
MaxCalls == 5

MaxSkipCalls == 7

\* the number of frames the congestion scenario records
ScenarioFrames == 20

\* the number of should_skip_frame calls that follow the scenario's feedback
ScenarioSkipCalls == 30

Limb == 2 ^ 16

u32(n) == <<n \div Limb, n % Limb>>

u32_MAX == <<Limb - 1, Limb - 1>>

u32_lt(a, b) == a[1] < b[1] \/ (a[1] = b[1] /\ a[2] < b[2])

\* a + b does not fit u32
add_overflows(a, b) == a[1] + b[1] + ((a[2] + b[2]) \div Limb) >= Limb

\* a + b in a release build: modulo 2^32
wrapping_add(a, b) ==
    <<(a[1] + b[1] + ((a[2] + b[2]) \div Limb)) % Limb, (a[2] + b[2]) % Limb>>

\* a / 2
half(a) == <<a[1] \div 2, ((a[1] % 2) * Limb + a[2]) \div 2>>

\* (a as f32 * (n / d)) as u32, for n, d <= 5000: the product truncated, and
\* saturated at u32::MAX as the cast does
scaled(a, n, d) ==
    LET q_high == (a[1] * n) \div d
        q_low  == (((a[1] * n) % d) * Limb + a[2] * n) \div d
        high   == q_high + (q_low \div Limb)
    IN  IF high >= Limb THEN u32_MAX ELSE <<high, q_low % Limb>>

\* Ord::clamp, for min <= max
clamp(x, min, max) ==
    IF u32_lt(x, min) THEN min ELSE IF u32_lt(max, x) THEN max ELSE x

Min(a, b) == IF a < b THEN a ELSE b

Max(a, b) == IF a > b THEN a ELSE b

QualityPreset == {"LowLatency", "Balanced", "HighQuality"}

AdaptiveBitrateConfig(min, max, fps, preset, window) ==
    [min_bitrate_kbps |-> min, max_bitrate_kbps |-> max, target_fps |-> fps,
     quality_preset |-> preset, calculation_window |-> window]

\* the configuration of the crate's unit tests
test_config == AdaptiveBitrateConfig(u32(500), u32(10000), 30, "Balanced", 10)

\* AdaptiveBitrateConfig::low_latency()
low_latency == AdaptiveBitrateConfig(u32(1000), u32(20000), 60, "LowLatency", 15)

\* AdaptiveBitrateConfig::high_quality()
high_quality == AdaptiveBitrateConfig(u32(5000), u32(100000), 30, "HighQuality", 60)

\* builder configurations: a window of one frame, a range of 500 kbps
one_frame_window == AdaptiveBitrateConfig(u32(500), u32(50000), 30, "Balanced", 1)

narrow_range == AdaptiveBitrateConfig(u32(5000), u32(5500), 30, "Balanced", 30)

\* the fields are plain u32: min = max = 2^31 kbps is a configuration too
upper_half == AdaptiveBitrateConfig(<<Limb \div 2, 0>>, <<Limb \div 2, 0>>, 30, "Balanced", 30)

Configs ==
    {test_config, low_latency, high_quality, one_frame_window, narrow_range, upper_half}

\* one configuration of each preset
PresetConfigs == {test_config, low_latency, high_quality}

\* debug builds check integer overflow and panic, release builds wrap
Builds == {"debug", "release"}

\* record_frame(encode_time_us, frame_size): a fast and a slow encode
FrameInputs == {<<2000, 30000>>, <<20000, 30000>>}

\* last_adjustment.elapsed().as_millis() as record_frame reads it
ElapsedMs == {99, 100}

\* packet_loss_ratio, in thousandths
LossInputs == {0, 150}

\* rtt_ms
RttInputs == {0, 300}

FrameRecord(encode_time_us, frame_size) ==
    [encode_time_us |-> encode_time_us, frame_size |-> frame_size]

\* BitrateStats::default()
BitrateStats ==
    [frames_recorded |-> 0, frames_dropped |-> 0, frames_skipped |-> 0,
     bitrate_increases |-> 0, bitrate_decreases |-> 0]

\* history: the call just made, what it was given and what it returned
CtrlCall(op, arg, ret) == [op |-> op, arg |-> arg, ret |-> ret]

adjustment_interval_ms == 100

target_rtt(preset) ==
    CASE preset = "LowLatency" -> 50
      [] preset = "Balanced" -> 150
      [] preset = "HighQuality" -> 300

threshold_three(preset) == 3

skip_threshold(preset) ==
    CASE preset = "LowLatency" -> 2
      [] preset = "Balanced" -> 3
      [] preset = "HighQuality" -> 4

\* the period of skipped frames: every 2nd, 3rd or 4th call
K(preset) ==
    CASE preset = "LowLatency" -> 2
      [] preset = "Balanced" -> 3
      [] preset = "HighQuality" -> 4

\* ghost counters of should_skip_frame calls, modulo the period K:
\* stretch_calls counts the calls made since the congestion level was last
\* below 0.5; found_calls counts the calls that found it at 0.5 or above since
\* the last call that found it below, the last reset or the construction.
stretch_after(congestion, called) ==
    IF congestion < 500 THEN 0
    ELSE IF called
         THEN (stretch_calls + 1) % K(config[1].quality_preset)
         ELSE stretch_calls

\* ---------------------------------------------------------------- new
initial_bitrate(cfg) == half(wrapping_add(cfg.min_bitrate_kbps, cfg.max_bitrate_kbps))

new(cfg, build) ==
    /\ config = None
    /\ IF build = "debug" /\ add_overflows(cfg.min_bitrate_kbps, cfg.max_bitrate_kbps)
       THEN \* attempt to add with overflow: the constructor panics
            /\ ctrl_last' = CtrlCall("new", cfg, "panic")
            /\ UNCHANGED <<config, current_bitrate>>
       ELSE /\ config' = Some(cfg)
            /\ current_bitrate' = initial_bitrate(cfg)
            /\ ctrl_last' = CtrlCall("new", cfg, "ok")
    /\ UNCHANGED <<frame_history, congestion_level, skip_counter, stats,
                   stretch_calls, found_calls, calls>>
    /\ UNCHANGED outside_ctrl

\* ---------------------------------------------------------------- adjust_bitrate
SumOf(history, field) == Sum([i \in DOMAIN history |-> history[i][field]], DOMAIN history)

\* the second branch: encode_budget_ratio < 0.5 && congestion_level < 0.1
raises(cfg, history, congestion) ==
    LET avg_encode_us == SumOf(history, "encode_time_us") \div Len(history)
        target_frame_time_us == 1000000 \div cfg.target_fps
    IN  2 * avg_encode_us < target_frame_time_us /\ congestion < 100

\* the first branch: congestion_level > 0.3
reduces(congestion) == congestion > 300

unclamped(cfg, bitrate, history, congestion) ==
    IF reduces(congestion) THEN scaled(bitrate, 5000 - congestion, 5000)
    ELSE IF raises(cfg, history, congestion) THEN scaled(bitrate, 11, 10)
    ELSE bitrate

adjusted(cfg, bitrate, history, congestion) ==
    clamp(unclamped(cfg, bitrate, history, congestion),
          cfg.min_bitrate_kbps, cfg.max_bitrate_kbps)

\* the counters adjust_bitrate moves
adjusted_stats(cfg, st, history, congestion) ==
    IF reduces(congestion)
    THEN [st EXCEPT !.bitrate_decreases = @ + 1]
    ELSE IF raises(cfg, history, congestion)
         THEN [st EXCEPT !.bitrate_increases = @ + 1]
         ELSE st

\* ---------------------------------------------------------------- record_frame
\* push_back, then pop_front while the history is longer than the window
windowed(history, window) ==
    IF Len(history) > window
    THEN SubSeq(history, Len(history) - window + 1, Len(history))
    ELSE history

record_frame(encode_time_us, frame_size, elapsed_ms) ==
    /\ config # None
    /\ LET cfg == config[1]
           history == windowed(Append(frame_history,
                                      FrameRecord(encode_time_us, frame_size)),
                               cfg.calculation_window)
           recorded == [stats EXCEPT !.frames_recorded = @ + 1]
           adjusts == elapsed_ms >= adjustment_interval_ms /\ history # <<>>
       IN  /\ frame_history' = history
           /\ current_bitrate' =
                 IF adjusts
                 THEN adjusted(cfg, current_bitrate, history, congestion_level)
                 ELSE current_bitrate
           /\ stats' =
                 IF adjusts
                 THEN adjusted_stats(cfg, recorded, history, congestion_level)
                 ELSE recorded
           /\ ctrl_last' = CtrlCall("record_frame", elapsed_ms, adjusts)
    /\ UNCHANGED <<config, congestion_level, skip_counter, stretch_calls, found_calls>>
    /\ calls' = calls + 1
    /\ UNCHANGED outside_ctrl

\* ---------------------------------------------------------------- record_dropped_frame
record_dropped_frame ==
    /\ config # None
    /\ stats' = [stats EXCEPT !.frames_dropped = @ + 1]
    /\ congestion_level' = Min(congestion_level + 200, 1000)
    /\ stretch_calls' = stretch_after(congestion_level', FALSE)
    /\ ctrl_last' = CtrlCall("record_dropped_frame", None, None)
    /\ UNCHANGED <<config, current_bitrate, frame_history, skip_counter, found_calls>>
    /\ calls' = calls + 1
    /\ UNCHANGED outside_ctrl

\* ---------------------------------------------------------------- record_network_feedback
after_loss(congestion, packet_loss_ratio) ==
    IF packet_loss_ratio > 50
    THEN Min(congestion + packet_loss_ratio, 1000)
    ELSE congestion

after_rtt(congestion, rtt_ms, target) ==
    IF rtt_ms > target
    THEN Min(congestion + ((rtt_ms - target) * 100) \div target, 1000)
    ELSE congestion

never_decays(congestion, packet_loss_ratio, rtt_ms, target) == congestion

after_decay(congestion, packet_loss_ratio, rtt_ms, target) ==
    IF packet_loss_ratio < 10 /\ rtt_ms < target
    THEN Max(congestion - 50, 0)
    ELSE congestion

record_network_feedback(packet_loss_ratio, rtt_ms) ==
    /\ config # None
    /\ LET target == target_rtt(config[1].quality_preset)
       IN  congestion_level' =
              after_decay(after_rtt(after_loss(congestion_level, packet_loss_ratio),
                                    rtt_ms, target),
                          packet_loss_ratio, rtt_ms, target)
    /\ stretch_calls' = stretch_after(congestion_level', FALSE)
    /\ ctrl_last' = CtrlCall("record_network_feedback", <<packet_loss_ratio, rtt_ms>>, None)
    /\ UNCHANGED <<config, current_bitrate, frame_history, skip_counter, stats, found_calls>>
    /\ calls' = calls + 1
    /\ UNCHANGED outside_ctrl

\* ---------------------------------------------------------------- should_skip_frame
should_skip_frame ==
    /\ config # None
    /\ IF congestion_level < 500
       THEN /\ skip_counter' = 0
            /\ ctrl_last' = CtrlCall("should_skip_frame", None, FALSE)
            /\ UNCHANGED stats
       ELSE IF skip_counter + 1 >= skip_threshold(config[1].quality_preset)
       THEN /\ skip_counter' = 0
            /\ stats' = [stats EXCEPT !.frames_skipped = @ + 1]
            /\ ctrl_last' = CtrlCall("should_skip_frame", None, TRUE)
       ELSE /\ skip_counter' = skip_counter + 1
            /\ ctrl_last' = CtrlCall("should_skip_frame", None, FALSE)
            /\ UNCHANGED stats
    /\ stretch_calls' = stretch_after(congestion_level, TRUE)
    /\ found_calls' = IF congestion_level < 500 THEN 0
                      ELSE (found_calls + 1) % K(config[1].quality_preset)
    /\ UNCHANGED <<config, current_bitrate, frame_history, congestion_level>>
    /\ calls' = calls + 1
    /\ UNCHANGED outside_ctrl

\* ---------------------------------------------------------------- reset
\* The sum is the one new() computed without a panic, so it wraps again.
reset ==
    /\ config # None
    /\ current_bitrate' = initial_bitrate(config[1])
    /\ frame_history' = <<>>
    /\ congestion_level' = 0
    /\ skip_counter' = 0
    /\ stats' = BitrateStats
    /\ stretch_calls' = 0
    /\ found_calls' = 0
    /\ ctrl_last' = CtrlCall("reset", None, None)
    /\ UNCHANGED config
    /\ calls' = calls + 1
    /\ UNCHANGED outside_ctrl

\* ---------------------------------------------------------------- specification
BitrateNext ==
    \/ \E cfg \in Configs, build \in Builds : new(cfg, build)
    \/ \E frame \in FrameInputs, elapsed_ms \in ElapsedMs :
          calls < MaxCalls /\ record_frame(frame[1], frame[2], elapsed_ms)
    \/ calls < MaxCalls /\ record_dropped_frame
    \/ \E packet_loss_ratio \in LossInputs, rtt_ms \in RttInputs :
          calls < MaxCalls /\ record_network_feedback(packet_loss_ratio, rtt_ms)
    \/ calls < MaxCalls /\ should_skip_frame
    \/ calls < MaxCalls /\ reset

BitrateSpec == Init /\ [][BitrateNext]_vars

\* The skip decision under every course of the congestion level.
SkipNext ==
    \/ \E cfg \in PresetConfigs, build \in Builds : new(cfg, build)
    \/ calls < MaxSkipCalls /\ record_dropped_frame
    \/ \E packet_loss_ratio \in LossInputs, rtt_ms \in RttInputs :
          calls < MaxSkipCalls /\ record_network_feedback(packet_loss_ratio, rtt_ms)
    \/ calls < MaxSkipCalls /\ should_skip_frame
    \/ calls < MaxSkipCalls /\ reset

SkipSpec == Init /\ [][SkipNext]_vars

\* The congestion scenario: the test controller records frame i as
\* record_frame(2000, 30000 + i * 1000) and receives the feedback
\* record_network_feedback(0.15, 300) at any point.
ScenarioNext ==
    \/ \E build \in Builds : new(test_config, build)
    \/ \E elapsed_ms \in ElapsedMs :
          /\ stats.frames_recorded < ScenarioFrames
          /\ record_frame(2000, 30000 + stats.frames_recorded * 1000, elapsed_ms)
    \/ calls < ScenarioFrames + MaxCalls /\ record_network_feedback(150, 300)

ScenarioSpec == Init /\ [][ScenarioNext]_vars

\* The end of the scenario on a fresh controller: one
\* record_network_feedback(0.15, 300), then should_skip_frame calls only.
FeedbackNext ==
    \/ \E cfg \in Configs, build \in Builds : new(cfg, build)
    \/ calls = 0 /\ record_network_feedback(150, 300)
    \/ calls \in 1 .. ScenarioSkipCalls /\ should_skip_frame

FeedbackSpec == Init /\ [][FeedbackNext]_vars

\* ------------------------------------------------------------------------
\* Part 5: DamageTracker (crates/lamco-pipewire/src/damage.rs)
\*
\* The tracker holds no frame size: add_region stores what it is given and
\* should_full_update is told the frame.  The threshold (f32 in [0, 1]) is
\* held in hundredths; the thresholds used are exact in f32.  Coordinates
\* stay far below 2^32, so the u32 sums x + width never wrap here.

\* bound of the specification: the calls that change one tracker
MaxTrackerCalls == 4

\* the frame whose damage is tracked
FrameWidth == 8

FrameHeight == 8

DamageRegion(x, y, width, height) == [x |-> x, y |-> y, width |-> width, height |-> height]

\* add_region(region): two regions 2 px apart, one touching both, one three
\* rows below, one reaching past the frame, an empty one
RegionInputs ==
    << DamageRegion(0, 0, 2, 2), DamageRegion(4, 0, 2, 2), DamageRegion(2, 0, 2, 2),
       DamageRegion(0, 5, 3, 3), DamageRegion(6, 6, 4, 4), DamageRegion(3, 3, 0, 0) >>

\* add_regions(regions)
RegionLists == { <<RegionInputs[1], RegionInputs[2]>>, <<RegionInputs[4], RegionInputs[3]>> }

\* should_full_update(frame_size)
FrameSizes == { <<FrameWidth, FrameHeight>>, <<0, FrameHeight>>, <<2, 2>> }

\* with_settings(threshold, merge_distance, max_regions)
Thresholds == {0, 50}

MergeDistances == {1}

MaxRegionsInputs == {0, 2, 3}

\* ---------------------------------------------------------------- DamageRegion
area(r) == r.width * r.height

overlaps(a, b) ==
    /\ a.x < b.x + b.width
    /\ a.x + a.width > b.x
    /\ a.y < b.y + b.height
    /\ a.y + a.height > b.y

merge(a, b) ==
    LET x == Min(a.x, b.x)
        y == Min(a.y, b.y)
        x2 == Max(a.x + a.width, b.x + b.width)
        y2 == Max(a.y + a.height, b.y + b.height)
    IN  DamageRegion(x, y, x2 - x, y2 - y)

\* ---------------------------------------------------------------- with_settings
\* DamageTracker::with_settings: a tracker built instead of new()
with_settings(threshold, distance, max) ==
    /\ tracker_calls = 0
    /\ dmg_last.op = "new"
    /\ full_damage_threshold' = Max(0, Min(threshold, 100))
    /\ merge_distance' = distance
    /\ max_regions' = max
    /\ dmg_last' = TrackerCall("with_settings", <<threshold, distance, max>>)
    /\ UNCHANGED <<regions, enable_merging, damage_stats, since_clear, tracker_calls>>
    /\ UNCHANGED outside_damage

\* ---------------------------------------------------------------- add_region
dist(a_low, a_len, b_low, b_len) ==
    IF a_low + a_len < b_low THEN b_low - (a_low + a_len)
    ELSE IF b_low + b_len < a_low THEN a_low - (b_low + b_len)
    ELSE 0

merges_when_overlapping(a, b, distance) == overlaps(a, b)

should_merge(a, b, distance) ==
    \/ overlaps(a, b)
    \/ /\ dist(a.x, a.width, b.x, b.width) <= distance
       /\ dist(a.y, a.height, b.y, b.height) <= distance

RECURSIVE merge_pass(_, _, _, _, _)
\* the inner while: one pass over the stored regions from index i
merge_pass(merged, rs, i, merged_any, distance) ==
    IF i > Len(rs)
    THEN [merged |-> merged, regions |-> rs, merged_any |-> merged_any]
    ELSE IF should_merge(merged, rs[i], distance)
         THEN merge_pass(merge(merged, rs[i]),
                         SubSeq(rs, 1, i - 1) \o SubSeq(rs, i + 1, Len(rs)),
                         i, TRUE, distance)
         ELSE merge_pass(merged, rs, i + 1, merged_any, distance)

push_unmerged(rs, region, distance) == Append(rs, region)

RECURSIVE add_with_merge(_, _, _)
\* the outer while: passes until one merges nothing, then push
add_with_merge(rs, region, distance) ==
    LET pass == merge_pass(region, rs, 1, FALSE, distance)
    IN  IF pass.merged_any
        THEN add_with_merge(pass.regions, pass.merged, distance)
        ELSE Append(pass.regions, pass.merged)

drops_above_limit(rs, max) == Len(rs) > max

\* the early return of add_region
drops(rs, max) == Len(rs) >= max

\* the regions after add_region(region)
added_to(rs, region, merging, distance, max) ==
    IF drops(rs, max) THEN rs
    ELSE IF merging THEN add_with_merge(rs, region, distance)
    ELSE Append(rs, region)

\* the ghost after add_region(RegionInputs[i]) on regions rs
noted(ghost, rs, i) ==
    [ghost EXCEPT
        !.added = IF i \in DOMAIN @ THEN [@ EXCEPT ![i] = @ + 1] ELSE @ @@ (i :> 1),
        !.unmerged = @ \/ (~drops(rs, max_regions) /\ ~enable_merging),
        !.dropped = @ \/ drops(rs, max_regions)]

add_region(i) ==
    /\ regions' = added_to(regions, RegionInputs[i], enable_merging, merge_distance,
                           max_regions)
    /\ damage_stats' =
          IF drops(regions, max_regions) THEN damage_stats
          ELSE [damage_stats EXCEPT !.total_regions = @ + 1]
    /\ since_clear' = noted(since_clear, regions, i)
    /\ tracker_calls' = tracker_calls + 1
    /\ dmg_last' = TrackerCall("add_region", i)
    /\ UNCHANGED <<full_damage_threshold, merge_distance, enable_merging, max_regions>>
    /\ UNCHANGED outside_damage

IndexOf(region) == CHOOSE i \in DOMAIN RegionInputs : RegionInputs[i] = region

\* add_regions: add_region for each region of the list, in order
add_regions(list) ==
    LET first == IndexOf(list[1])
        second == IndexOf(list[2])
        rs1 == added_to(regions, list[1], enable_merging, merge_distance, max_regions)
        rs2 == added_to(rs1, list[2], enable_merging, merge_distance, max_regions)
        stored == (IF drops(regions, max_regions) THEN 0 ELSE 1)
                  + (IF drops(rs1, max_regions) THEN 0 ELSE 1)
    IN  /\ regions' = rs2
        /\ damage_stats' = [damage_stats EXCEPT !.total_regions = @ + stored]
        /\ since_clear' = noted(noted(since_clear, regions, first), rs1, second)
        /\ tracker_calls' = tracker_calls + 1
        /\ dmg_last' = TrackerCall("add_regions", <<first, second>>)
        /\ UNCHANGED <<full_damage_threshold, merge_distance, enable_merging, max_regions>>
        /\ UNCHANGED outside_damage

\* ---------------------------------------------------------------- mark_full_damage
mark_full_damage(width, height) ==
    /\ regions' = <<DamageRegion(0, 0, width, height)>>
    /\ damage_stats' = [damage_stats EXCEPT !.full_damage_frames = @ + 1]
    /\ since_clear' = [NoneAdded EXCEPT !.marked = TRUE]
    /\ tracker_calls' = tracker_calls + 1
    /\ dmg_last' = TrackerCall("mark_full_damage", <<width, height>>)
    /\ UNCHANGED <<full_damage_threshold, merge_distance, enable_merging, max_regions>>
    /\ UNCHANGED outside_damage

\* ---------------------------------------------------------------- should_full_update
RECURSIVE total_damaged_area(_)
total_damaged_area(rs) ==
    IF rs = <<>> THEN 0 ELSE area(Head(rs)) + total_damaged_area(Tail(rs))

ratio_exceeds(rs, frame_size, threshold) ==
    LET total_area == frame_size[1] * frame_size[2]
    IN  IF total_area = 0
        THEN 0 > threshold
        ELSE total_damaged_area(rs) * 100 > threshold * total_area

\* damage_ratio(frame_size) >= threshold; the ratio is 0.0 for an empty frame
ratio_reaches(rs, frame_size, threshold) ==
    LET total_area == frame_size[1] * frame_size[2]
    IN  IF total_area = 0
        THEN 0 >= threshold
        ELSE total_damaged_area(rs) * 100 >= threshold * total_area

full_update(rs, frame_size, threshold, max) ==
    IF rs = <<>> THEN TRUE
    ELSE IF Len(rs) >= max THEN TRUE
    ELSE ratio_reaches(rs, frame_size, threshold)

should_full_update(frame_size) ==
    /\ dmg_last' = [dmg_last EXCEPT
                       !.asked = frame_size,
                       !.answer = full_update(regions, frame_size,
                                              full_damage_threshold, max_regions)]
    /\ UNCHANGED <<regions, full_damage_threshold, merge_distance, enable_merging,
                   max_regions, damage_stats, since_clear, tracker_calls>>
    /\ UNCHANGED outside_damage

\* ---------------------------------------------------------------- clear
clear ==
    /\ regions' = <<>>
    /\ damage_stats' = [damage_stats EXCEPT !.frames_processed = @ + 1]
    /\ since_clear' = NoneAdded
    /\ tracker_calls' = tracker_calls + 1
    /\ dmg_last' = TrackerCall("clear", None)
    /\ UNCHANGED <<full_damage_threshold, merge_distance, enable_merging, max_regions>>
    /\ UNCHANGED outside_damage

\* ---------------------------------------------------------------- set_merging
set_merging(enable) ==
    /\ enable_merging' = enable
    /\ tracker_calls' = tracker_calls + 1
    /\ dmg_last' = TrackerCall("set_merging", enable)
    /\ UNCHANGED <<regions, full_damage_threshold, merge_distance, max_regions,
                   damage_stats, since_clear>>
    /\ UNCHANGED outside_damage

\* ---------------------------------------------------------------- specification
DamageNext ==
    \/ \E threshold \in Thresholds, distance \in MergeDistances, max \in MaxRegionsInputs :
          with_settings(threshold, distance, max)
    \/ \E i \in DOMAIN RegionInputs : tracker_calls < MaxTrackerCalls /\ add_region(i)
    \/ \E list \in RegionLists : tracker_calls < MaxTrackerCalls /\ add_regions(list)
    \/ tracker_calls < MaxTrackerCalls /\ mark_full_damage(FrameWidth, FrameHeight)
    \/ \E frame_size \in FrameSizes : should_full_update(frame_size)
    \/ tracker_calls < MaxTrackerCalls /\ clear
    \/ \E enable \in BOOLEAN : tracker_calls < MaxTrackerCalls /\ set_merging(enable)

DamageSpec == Init /\ [][DamageNext]_vars

\* ---------------------------------------------------------------- claims
Returned(op) == pc = "return" /\ last.op = op

StateEdges ==
    { <<"Disconnected", "Connecting">>, <<"Connecting", "Connected">>,
      <<"Connected", "ShuttingDown">>, <<"ShuttingDown", "Disconnected">> }

C2_MaxStreamsEnforced ==
    /\ Cardinality(DOMAIN streams) <= max_streams
    /\ (Returned("create_stream")
        /\ Cardinality(DOMAIN last.pre.streams) = max_streams)
       => /\ last.ret = Err("TooManyStreams", max_streams)
          /\ next_stream_id = last.pre.next_stream_id
          /\ frame_receivers = last.pre.frame_receivers
          /\ chan_gen = last.pre.chan_gen
          /\ cmds = last.pre.cmds
          /\ streams = last.pre.streams

C2_RejectedAtLimit ==
    /\ Returned("create_stream")
    /\ last.ret.kind = "TooManyStreams"
    /\ Cardinality(DOMAIN streams) = max_streams

\* C3: create_stream called in a state other than Connected returns an error
\* and leaves the state, the stream map, the frame-sender map, the next stream
\* id and the command channel as they were.
C3_CreateNeedsConnected ==
    (Returned("create_stream") /\ last.pre.state # "Connected")
    => /\ last.ret.kind = "InvalidState"
       /\ Snapshot = last.pre

C3_RejectedWhileConnecting ==
    Returned("create_stream") /\ last.pre.state = "Connecting"

\* C4: connect on a Connected manager fails with InvalidState and leaves the
\* state, the capture-thread handle, the stored portal FD and the streams as
\* they were.
C4_ConnectWhileConnected ==
    (last.op = "connect" /\ last.pre.state = "Connected")
    => /\ pc = "return"
       /\ last.ret.kind = "InvalidState"
       /\ state = "Connected"
       /\ thread_manager = last.pre.thread_manager
       /\ portal_fd = last.pre.portal_fd
       /\ streams = last.pre.streams

C4_RejectedWithOtherFd ==
    /\ Returned("connect")
    /\ last.pre.state = "Connected"
    /\ streams # EmptyMap
    /\ portal_fd # Some(last.arg)

\* C5: a connect that fails after it started connecting leaves the manager in
\* Error; no connect call returns with the manager in Connecting.
C5_FailedConnectEntersError ==
    /\ pc \in {"idle", "return"} => state # "Connecting"
    /\ (Returned("connect") /\ last.ret.kind = "ThreadInitFailed") => state = "Error"

Increasing(seq) == \A i, j \in DOMAIN seq : i < j => seq[i] < seq[j]

CreatedHandleMatches ==
    (Returned("create_stream") /\ last.ret.kind = "Ok")
    => /\ last.ret.val = StreamHandle(last.ret.val.id, last.arg)
       /\ returned # <<>>
       /\ returned[Len(returned)] = last.ret.val.id

\* C6 as stated: the first successful create_stream returns id 0, every
\* successful create_stream returns an id greater than all ids returned before,
\* and the handle carries the StreamInfo unchanged.  A create_stream that fails
\* after the pre-checks has used up id 0.
C6_FirstIdZero ==
    /\ returned # <<>> => returned[1] = 0
    /\ Increasing(returned)
    /\ CreatedHandleMatches

\* C6 amended: a successful create_stream returns the value of the id counter,
\* which starts at 0 and moves on with every create_stream that passes the
\* state and limit checks; the ids returned are strictly increasing, so none is
\* reused, and the handle carries the StreamInfo unchanged.
C6_MonotonicIds ==
    /\ Increasing(returned)
    /\ \A i \in DOMAIN returned : returned[i] < next_stream_id
    /\ CreatedHandleMatches
    /\ (Returned("create_stream") /\ last.ret.kind = "Ok")
       => /\ last.ret.val.id = last.pre.next_stream_id
          /\ last.ret.val.id \in DOMAIN streams
          /\ streams[last.ret.val.id] = last.ret.val

\* A second id is returned after the first stream was removed and the manager
\* was shut down and connected again (the new thread's channel is empty).
C6_SecondIdAfterReconnect ==
    /\ Returned("create_stream")
    /\ last.ret.kind = "Ok"
    /\ returned = <<0, 1>>
    /\ 0 \in removed
    /\ last.pre.cmds = <<>>

\* C7: remove_stream of an id that is not an active stream fails with
\* StreamNotFound(id), sends nothing and changes nothing; after any
\* remove_stream(id) the id is not active, and a removed id never is again, so
\* a second remove_stream of it fails the same way.
C7_RemoveUnknown ==
    /\ (Returned("remove_stream") /\ last.arg \notin DOMAIN last.pre.streams)
       => /\ last.ret = Err("StreamNotFound", last.arg)
          /\ Snapshot = last.pre
    /\ Returned("remove_stream") => last.arg \notin DOMAIN streams
    /\ removed \cap DOMAIN streams = {}

C7_SecondRemove ==
    /\ Returned("remove_stream")
    /\ last.arg \in removed
    /\ last.ret.kind = "StreamNotFound"

\* C8: shutdown returns Ok from any state and any set of streams, also when a
\* destroy fails, and ends Disconnected, with no stream and no thread handle;
\* a shutdown of a manager already in that condition changes nothing.
C8_ShutdownTotal ==
    Returned("shutdown")
    => /\ last.ret = Ok(0)
       /\ state = "Disconnected"
       /\ streams = EmptyMap
       /\ thread_manager = None
       /\ (/\ last.pre.state = "Disconnected"
           /\ last.pre.streams = EmptyMap
           /\ last.pre.thread_manager = None) => Snapshot = last.pre

C8_ShutdownWithFailedDestroy ==
    Returned("shutdown") /\ warned /\ last.pre.streams # EmptyMap

\* C9: after frame_receiver(id) returns, the sender registered for id is the
\* one of the new channel, and every channel made for id before (by
\* frame_receiver or create_stream) is closed; at no time is more than one
\* channel of an id open.
C9_OneLiveReceiver ==
    /\ \A id \in DOMAIN frame_receivers : frame_receivers[id] \in 1 .. chan_gen[id]
    /\ \A id \in DOMAIN chan_gen :
          Cardinality({g \in 1 .. chan_gen[id] : ~Closed(id, g)}) <= 1
    /\ (Returned("frame_receiver") /\ last.ret.kind = "Some")
       => /\ last.ret.val = last.pre.chan_gen[last.arg] + 1
          /\ ~Closed(last.arg, last.ret.val)
          /\ \A g \in 1 .. last.pre.chan_gen[last.arg] : Closed(last.arg, g)

C9_ThirdChannelOfStream ==
    /\ Returned("frame_receiver")
    /\ last.arg \in DOMAIN streams
    /\ last.ret.val = 3

\* C10: frame_receiver(id) for an id with no stream returns None and registers
\* no sender.  The code returns Some(rx) and registers the sender for any id.
C10_NoneForUnknownStream ==
    (Returned("frame_receiver") /\ last.arg \notin DOMAIN last.pre.streams)
    => /\ last.ret.kind = "None"
       /\ frame_receivers = last.pre.frame_receivers

DestroyCmds(log) == {i \in DOMAIN log : log[i].cmd = "DestroyStream"}

\* C11: dropping a StreamHandle or a receiver, or calling frame_receiver again,
\* leaves every stream in the stream map (so it still counts toward
\* max_streams) and sends no DestroyStream; only remove_stream and shutdown
\* take a stream out.  frame_receiver changes nothing of the manager but the
\* sender registered for its id.
C11_OnlyRemoveDestroys ==
    /\ (pc = "return" /\ last.op \in {"drop_handle", "drop_receiver"})
       => Snapshot = last.pre
    /\ Returned("frame_receiver")
       => /\ [Snapshot EXCEPT !.frame_receivers = 0, !.chan_gen = 0]
             = [last.pre EXCEPT !.frame_receivers = 0, !.chan_gen = 0]
          /\ DOMAIN frame_receivers = DOMAIN last.pre.frame_receivers \cup {last.arg}
          /\ \A id \in DOMAIN last.pre.frame_receivers :
                id # last.arg => frame_receivers[id] = last.pre.frame_receivers[id]
    /\ (pc = "return" /\ last.op \notin {"remove_stream", "shutdown"})
       => /\ \A id \in DOMAIN last.pre.streams :
                id \in DOMAIN streams /\ streams[id] = last.pre.streams[id]
          /\ Cardinality(DestroyCmds(cmds)) <= Cardinality(DestroyCmds(last.pre.cmds))

\* The receiver of an active stream was dropped, with another stream's
\* sender registered, and the stream is still there.
C11_DroppedReceiverOfActiveStream ==
    /\ Returned("drop_receiver")
    /\ last.arg \in DOMAIN streams
    /\ Cardinality(DOMAIN streams) = max_streams
    /\ DOMAIN frame_receivers # {last.arg}

\* ---------------------------------------------------------------- clipboard sink
\* Events the task has answered: all that were emitted but those still in the
\* channel and the one it is writing.
Handled ==
    (next_serial - 1) - Len(transfer_rx) - (IF listener = "write" THEN 1 ELSE 0)

LastCall == portal_calls[Len(portal_calls)]

\* C12: the task takes the SelectionTransfer events one at a time in arrival
\* order and answers each with exactly one portal call carrying its serial:
\* SelectionWrite(serial, data) when data was pending for the MIME type, and
\* then, on success, the pending entry is removed; SelectionWriteDone(serial,
\* false) when nothing was pending.
C12_OneAnswerPerTransfer ==
    /\ Len(portal_calls) = Handled
    /\ \A i \in DOMAIN portal_calls : portal_calls[i].serial = i
    /\ \A i \in DOMAIN transfer_rx :
          transfer_rx[i].serial = Len(portal_calls) + (IF listener = "write" THEN 1 ELSE 0) + i
    /\ listener = "write" <=> event # None
    /\ listener = "write" => event[1].serial = Len(portal_calls) + 1
    /\ sink_last.op = "recv"
       => LET ev == sink_last.event
          IN  IF ev.mime_type \in DOMAIN sink_last.pending
              THEN /\ listener = "write"
                   /\ event = Some([mime_type |-> ev.mime_type, serial |-> ev.serial,
                                    data |-> sink_last.pending[ev.mime_type].data])
              ELSE /\ listener = "recv"
                   /\ LastCall = SelectionWriteDone(ev.serial, FALSE, ev.mime_type)
    /\ sink_last.op = "write_selection_data"
       => LET ev == sink_last.event
          IN  /\ LastCall = SelectionWrite(ev.serial, ev.data, ev.mime_type, sink_last.outcome)
              /\ sink_last.outcome = "ok"
                 => pending_data = MapRemove(sink_last.pending, ev.mime_type)

\* One write_clipboard, then two transfers for its MIME type: the first is
\* written, the second is told there is nothing.
C12_WrittenOnceThenNothing ==
    /\ sink_last.op = "recv"
    /\ portal_calls = << SelectionWrite(1, "hi", "text/plain", "ok"),
                         SelectionWriteDone(2, FALSE, "text/plain") >>

\* C13: a failed SelectionWrite ends nothing: the task goes back to recv, the
\* pending entry stays, and every event emitted, before or after the
\* failure, gets its answer.
C13_FailedWriteKeepsBridge ==
    /\ [](listener # "ended")
    /\ []((sink_last.op = "write_selection_data" /\ sink_last.outcome = "err")
           => (listener = "recv" /\ pending_data = sink_last.pending))
    /\ \A serial \in 1 .. MaxSerial :
          (next_serial > serial) ~> (Len(portal_calls) >= serial)

\* The write for serial 1 failed and the event with serial 2 was answered.
C13_AnsweredAfterFailure ==
    /\ Len(portal_calls) = 2
    /\ portal_calls[1].call = "SelectionWrite"
    /\ portal_calls[1].ret = "err"
    /\ portal_calls[2].call = "SelectionWrite"
    /\ portal_calls[2].data = portal_calls[1].data

\* C14: right after write_clipboard(mime, data) the pending map has no entry
\* queued more than 30 s before the call, and its entry for mime holds data.
C14_PurgedOnInsert ==
    sink_last.op = "write_clipboard"
    => /\ \A m \in DOMAIN pending_data :
             sink_last.at - pending_data[m].queued_at <= stale_threshold
       /\ sink_last.mime_type \in DOMAIN pending_data
       /\ pending_data[sink_last.mime_type] = PendingData(sink_last.data, sink_last.at)

\* A write replaced older bytes of its MIME type and threw out the entry of
\* the other MIME type, queued 31 s before.
C14_EvictedAndKept ==
    /\ sink_last.op = "write_clipboard"
    /\ \E m \in DOMAIN sink_last.pending :
          /\ m \notin DOMAIN pending_data
          /\ sink_last.at - sink_last.pending[m].queued_at = stale_threshold + 1
    /\ sink_last.mime_type \in DOMAIN sink_last.pending
    /\ sink_last.pending[sink_last.mime_type].data # sink_last.data

\* ---------------------------------------------------------------- portal session
\* The portal calls of the k-th create_session, in call order.
RECURSIVE CallsIn(_, _)
CallsIn(log, k) ==
    IF log = <<>> THEN <<>>
    ELSE IF Head(log).of = k THEN <<Head(log).call>> \o CallsIn(Tail(log), k)
    ELSE CallsIn(Tail(log), k)

IsPrefix(a, b) == Len(a) <= Len(b) /\ a = SubSeq(b, 1, Len(a))

SessionSequence(clipboard) ==
    IF clipboard = None
    THEN <<"CreateSession", "SelectDevices", "SelectSources", "Start", "OpenPipeWireRemote">>
    ELSE <<"CreateSession", "SelectDevices", "SelectSources", "RequestClipboard",
           "Start", "OpenPipeWireRemote">>

\* C15: the portal calls of a create_session are made in the order
\* CreateSession, SelectDevices, SelectSources, RequestClipboard (only with a
\* clipboard manager), Start, OpenPipeWireRemote, all but the first on the
\* session the first created; a handle is returned only after the whole
\* sequence, with the FD and the streams it obtained.
C15_SessionCallOrder ==
    \A k \in DOMAIN invocations :
       /\ IsPrefix(CallsIn(portal_log, k), SessionSequence(invocations[k].clipboard))
       /\ \A i \in DOMAIN portal_log :
             portal_log[i].of = k
             => portal_log[i].session =
                   (IF portal_log[i].call = "CreateSession" THEN None ELSE Some(k))
       /\ invocations[k].ret.kind = "Ok"
          => /\ CallsIn(portal_log, k) = SessionSequence(invocations[k].clipboard)
             /\ invocations[k].ret.val.session = k
             /\ invocations[k].ret.val.pipewire_fd = PipeWireFd(k)
             /\ invocations[k].ret.val.streams \in StreamLists \ {<<>>}

\* A session with clipboard access and one without were both created.
C15_WithAndWithoutClipboard ==
    /\ Len(invocations) = 2
    /\ invocations[1].clipboard # None
    /\ invocations[1].ret.kind = "Ok"
    /\ invocations[2].clipboard = None
    /\ invocations[2].ret.kind = "Ok"

\* C16: when a step of the sequence fails, create_session returns an error
\* and makes no later step.  A failed RequestClipboard is only logged.
C16_FailureStopsSequence ==
    \A k \in DOMAIN invocations :
       invocations[k].failed # {} => invocations[k].ret.kind \notin {"Pending", "Ok"}

\* C17: a refused consent dialog makes create_session fail with
\* PermissionDenied, an empty stream list with NoStreamsAvailable.  The refusal
\* comes back as SessionCreation.
C17_DeniedOrNoStreams ==
    \A k \in DOMAIN invocations :
       /\ "denied" \in invocations[k].failed
          => invocations[k].ret = Err("PermissionDenied", 0)
       /\ "no_streams" \in invocations[k].failed
          => invocations[k].ret = Err("NoStreamsAvailable", 0)

\* (a + b) / 2 without the limit of 32 bits
midpoint(a, b) ==
    LET high == a[1] + b[1] + ((a[2] + b[2]) \div Limb)
    IN  <<high \div 2, ((high % 2) * Limb + ((a[2] + b[2]) % Limb)) \div 2>>

\* C18: a controller configured with min_bitrate_kbps <= max_bitrate_kbps
\* recommends a bitrate within [min, max] after every call, and the bitrate
\* (min + max) / 2 after its construction.  new() and reset() compute the sum
\* in u32, so with min + max >= 2^32 a release build starts below min.
C18_BitrateInRange ==
    (/\ config # None
     /\ ~u32_lt(config[1].max_bitrate_kbps, config[1].min_bitrate_kbps))
    => /\ ~u32_lt(current_bitrate, config[1].min_bitrate_kbps)
       /\ ~u32_lt(config[1].max_bitrate_kbps, current_bitrate)
       /\ ctrl_last.op = "new" =>
             current_bitrate = midpoint(config[1].min_bitrate_kbps,
                                        config[1].max_bitrate_kbps)

\* a step that is a call of op
CtrlStep(op) == calls' = calls + 1 /\ ctrl_last'.op = op

\* C19 as stated: should_skip_frame returns false and zeroes the skip counter
\* when congestion < 0.5; while congestion stays >= 0.5 it returns true on
\* exactly every K-th call of that stretch; frames_skipped grows by one per
\* true result.
C19_EveryKthOfStretch ==
    [][CtrlStep("should_skip_frame") =>
        /\ congestion_level < 500 => (ctrl_last'.ret = FALSE /\ skip_counter' = 0)
        /\ congestion_level >= 500 => (ctrl_last'.ret = (stretch_calls' = 0))
        /\ stats'.frames_skipped =
              stats.frames_skipped + (IF ctrl_last'.ret THEN 1 ELSE 0)]_vars

\* C19: should_skip_frame returns false and zeroes the skip counter when it
\* finds congestion < 0.5; of the consecutive calls that find congestion >= 0.5,
\* counted from the last call that found it below 0.5, the last reset or the
\* construction, exactly every K-th returns true; frames_skipped grows by one
\* per true result.
C19_EveryKthFound ==
    [][CtrlStep("should_skip_frame") =>
        /\ congestion_level < 500 => (ctrl_last'.ret = FALSE /\ skip_counter' = 0)
        /\ congestion_level >= 500 => (ctrl_last'.ret = (found_calls' = 0))
        /\ stats'.frames_skipped =
              stats.frames_skipped + (IF ctrl_last'.ret THEN 1 ELSE 0)]_vars

\* A call returned true although fewer than K calls were made since the
\* congestion level last rose to 0.5: the count began in an earlier stretch.
C19_SkippedEarlyInStretch ==
    /\ ctrl_last.op = "should_skip_frame"
    /\ ctrl_last.ret = TRUE
    /\ congestion_level >= 500
    /\ stretch_calls # 0
    /\ found_calls = 0
    /\ stats.frames_skipped = 1

\* C20: on the test controller with 20 frames recorded, recommended_bitrate()
\* read right after record_network_feedback(0.15, 300) is strictly lower than
\* read right before the call.  The call never writes current_bitrate.
C20_FeedbackLowersBitrate ==
    [][(/\ CtrlStep("record_network_feedback")
        /\ ctrl_last'.arg = <<150, 300>>
        /\ config = Some(test_config)
        /\ stats.frames_recorded = ScenarioFrames)
       => u32_lt(current_bitrate', current_bitrate)]_vars

\* C21: one record_network_feedback(0.15, 300) on a Balanced controller with
\* zero congestion leaves congestion_level() >= 0.3, and at least one of the
\* next 30 should_skip_frame calls returns true.  The call leaves 0.25.
C21_FeedbackCongestsAndSkips ==
    (config # None /\ config[1].quality_preset = "Balanced") =>
        /\ calls >= 1 => congestion_level >= 300
        /\ calls = 1 + ScenarioSkipCalls => stats.frames_skipped >= 1

\* C22: every region stored after add_region / add_regions calls for the frame
\* (FrameWidth, FrameHeight) is clipped to the frame and not empty.
\* add_region stores the region as given.
C22_RegionsClipped ==
    ~since_clear.marked =>
        \A k \in DOMAIN regions :
            /\ regions[k].x + regions[k].width <= FrameWidth
            /\ regions[k].y + regions[k].height <= FrameHeight
            /\ regions[k].width > 0
            /\ regions[k].height > 0

Area(rs) == Sum([k \in DOMAIN rs |-> rs[k].width * rs[k].height], DOMAIN rs)

\* the sum of the areas divided by W * H is at least the threshold; the
\* quotient of a positive sum by an empty frame is unbounded
QuotientReaches(rs, frame_size, threshold) ==
    IF frame_size[1] * frame_size[2] = 0
    THEN Area(rs) > 0
    ELSE Area(rs) * 100 >= threshold * frame_size[1] * frame_size[2]

\* C23 as stated: should_full_update((W, H)) returns true exactly when the
\* set is empty, or holds at least max_regions regions, or the sum of the
\* areas divided by W * H is at least the threshold.
C23_FullUpdateByQuotient ==
    dmg_last.asked # None =>
        dmg_last.answer = (\/ regions = <<>>
                           \/ Len(regions) >= max_regions
                           \/ QuotientReaches(regions, dmg_last.asked,
                                               full_damage_threshold))

\* C23: should_full_update((W, H)) returns true exactly when the set is
\* empty, or holds at least max_regions regions, or the damage ratio is at
\* least the threshold, where the ratio is the sum of the areas divided by
\* W * H for W * H > 0 and is 0 for an empty frame.
C23_FullUpdateByRatio ==
    dmg_last.asked # None =>
        LET total_area == dmg_last.asked[1] * dmg_last.asked[2]
        IN  dmg_last.answer =
               (\/ regions = <<>>
                \/ Len(regions) >= max_regions
                \/ total_area > 0 /\ Area(regions) * 100 >=
                                        full_damage_threshold * total_area
                \/ total_area = 0 /\ full_damage_threshold = 0)

\* Damage in an empty frame, below the region limit, is no full update.
C23_DamageInEmptyFrame ==
    /\ dmg_last.asked # None
    /\ dmg_last.asked[1] * dmg_last.asked[2] = 0
    /\ regions # <<>>
    /\ Len(regions) < max_regions
    /\ Area(regions) > 0
    /\ dmg_last.answer = FALSE

Gap(a_low, a_len, b_low, b_len) ==
    Max(0, Max(b_low - (a_low + a_len), a_low - (b_low + b_len)))

\* the merge discipline: the regions overlap, or their gap is at most
\* merge_distance on both axes
Mergeable(a, b) ==
    \/ /\ a.x < b.x + b.width /\ b.x < a.x + a.width
       /\ a.y < b.y + b.height /\ b.y < a.y + a.height
    \/ /\ Gap(a.x, a.width, b.x, b.width) <= merge_distance
       /\ Gap(a.y, a.height, b.y, b.height) <= merge_distance

Inside(a, b) ==
    /\ b.x <= a.x /\ a.x + a.width <= b.x + b.width
    /\ b.y <= a.y /\ a.y + a.height <= b.y + b.height

BoundingBox(S) ==
    LET x == CHOOSE v \in {r.x : r \in S} : \A r \in S : v <= r.x
        y == CHOOSE v \in {r.y : r \in S} : \A r \in S : v <= r.y
        x2 == CHOOSE v \in {r.x + r.width : r \in S} : \A r \in S : v >= r.x + r.width
        y2 == CHOOSE v \in {r.y + r.height : r \in S} : \A r \in S : v >= r.y + r.height
    IN  DamageRegion(x, y, x2 - x, y2 - y)

Stored == {regions[k] : k \in DOMAIN regions}

Inputs == {RegionInputs[i] : i \in DOMAIN since_clear.added}

RECURSIVE Closure(_)
\* the regions left when mergeable pairs are replaced by their bounding box
\* until no such pair is left
Closure(S) ==
    IF \E a, b \in S : a # b /\ Mergeable(a, b)
    THEN LET pair == CHOOSE p \in S \X S : p[1] # p[2] /\ Mergeable(p[1], p[2])
         IN  Closure((S \ {pair[1], pair[2]}) \cup {BoundingBox({pair[1], pair[2]})})
    ELSE S

RECURSIVE Ascending(_, _)
\* the indexes of the bag from i on, in ascending order
Ascending(bag, i) ==
    IF i > Len(RegionInputs) THEN <<>>
    ELSE [k \in 1 .. (IF i \in DOMAIN bag THEN bag[i] ELSE 0) |-> i] \o Ascending(bag, i + 1)

RECURSIVE AddedInOrder(_, _)
\* the regions of a tracker to which add_region was called in that order
AddedInOrder(rs, order) ==
    IF order = <<>> THEN rs
    ELSE AddedInOrder(added_to(rs, RegionInputs[Head(order)], TRUE, merge_distance,
                               max_regions),
                      Tail(order))

\* the adds since the tracker was empty were all made with merging enabled
MergedAdds == enable_merging /\ ~since_clear.unmerged /\ ~since_clear.marked

\* C25 as stated: adding the same multiset of regions to an empty tracker in
\* any two orders yields the same set: the order taken and ascending order.
C25_AnyOrderSameSet ==
    MergedAdds =>
        Stored = LET rs == AddedInOrder(<<>>, Ascending(since_clear.added, 1))
                 IN  {rs[k] : k \in DOMAIN rs}

\* C25: adding the same multiset of regions to an empty tracker in any order
\* in which no add_region call finds max_regions regions stored yields the
\* same set, the closure of the regions under merging.
C25_OrderIndependentBelowLimit ==
    (MergedAdds /\ ~since_clear.dropped) => Stored = Closure(Inputs)

\* Three regions were added, the highest first, none was dropped, and two
\* regions are stored.
C25_ThreeAddedOutOfOrder ==
    /\ MergedAdds /\ ~since_clear.dropped
    /\ merge_distance = 1
    /\ DOMAIN since_clear.added = {1, 3, 4}
    /\ dmg_last.op = "add_region" /\ dmg_last.arg = 1
    /\ Len(regions) = 2

\* a step that is a call of op on the tracker
TrackerStep(op) == tracker_calls' = tracker_calls + 1 /\ dmg_last'.op = op

AddsIgnoredAtLimit ==
    (TrackerStep("add_region") /\ Len(regions) >= max_regions) =>
        /\ regions' = regions
        /\ damage_stats'.total_regions = damage_stats.total_regions

FullUpdateAtLimit ==
    Len(regions) >= max_regions =>
        /\ \A frame_size \in FrameSizes :
              full_update(regions, frame_size, full_damage_threshold, max_regions)
        /\ dmg_last.asked # None => dmg_last.answer = TRUE

\* C26 as stated: the tracker never stores more than max_regions regions;
\* once max_regions are stored add_region is ignored and should_full_update
\* returns true for every frame size.
C26_NeverAboveLimit ==
    /\ [](Len(regions) <= max_regions)
    /\ [][AddsIgnoredAtLimit]_vars
    /\ []FullUpdateAtLimit

\* C26: add_region never stores more than max_regions regions, and
\* mark_full_damage stores one region whatever max_regions is; once
\* max_regions or more are stored add_region is ignored and
\* should_full_update returns true for every frame size.
C26_LimitExceptFullDamage ==
    /\ [](Len(regions) <= max_regions
           \/ (since_clear.marked /\ Len(regions) = 1 /\ max_regions = 0))
    /\ [][AddsIgnoredAtLimit]_vars
    /\ []FullUpdateAtLimit

\* With max_regions = 2 two regions are stored and a third add_region was
\* dropped.
C26_ThirdAddDropped ==
    /\ max_regions = 2
    /\ Len(regions) = 2
    /\ dmg_last.op = "add_region"
    /\ since_clear.dropped
    /\ damage_stats.total_regions = 2

\* C27: with merging enabled, add_region(r) right after add_region(r) leaves
\* the stored regions unchanged, and with them the answer of
\* should_full_update for every frame size.
C27_SecondAddChangesNothing ==
    [][(/\ TrackerStep("add_region")
        /\ dmg_last.op = "add_region"
        /\ dmg_last'.arg = dmg_last.arg
        /\ enable_merging)
       => /\ {regions'[k] : k \in DOMAIN regions'} = Stored
          /\ Len(regions') = Len(regions)
          /\ \A frame_size \in FrameSizes :
                full_update(regions', frame_size, full_damage_threshold, max_regions)
                = full_update(regions, frame_size, full_damage_threshold, max_regions)]_vars

\* A region was added twice in a row to a tracker holding another region
\* that it merged with.
C27_AddedTwiceAfterMerge ==
    /\ enable_merging /\ ~since_clear.unmerged /\ ~since_clear.dropped
    /\ merge_distance = 1
    /\ tracker_calls = 3
    /\ dmg_last.op = "add_region" /\ dmg_last.arg = 3
    /\ DOMAIN since_clear.added = {1, 3} /\ since_clear.added[3] = 2
    /\ regions = <<DamageRegion(0, 0, 4, 2)>>
    /\ damage_stats.total_regions = 3

\* ======================================================================
\* Part 6: CursorExtractor (crates/lamco-pipewire/src/cursor.rs)
\* ======================================================================
\* The extractor is a plain struct behind &mut self: its methods run one at
\* a time.  CursorInfo.timestamp is not modelled.  The serial is a u64 that
\* only update_bitmap raises, by one per call: it cannot reach u64::MAX.

\* ---------------------------------------------------------------- bounds
MaxCursorCalls == 4

\* ---------------------------------------------------------------- inputs
CacheSizes == {0, 1, 2}

PositionInputs == {<<100, 200>>, <<150, 250>>}

\* update_bitmap(bitmap, width, height, hotspot_x, hotspot_y)
BitmapInputs ==
    {[bitmap |-> <<1>>, width |-> 1, height |-> 1, hotspot_x |-> 0, hotspot_y |-> 0],
     [bitmap |-> <<2>>, width |-> 1, height |-> 1, hotspot_x |-> 0, hotspot_y |-> 0]}

\* update_from_raw(position, hotspot, size, bitmap, visible)
RawInputs ==
    {[position |-> <<100, 200>>, hotspot |-> <<0, 0>>, size |-> <<1, 1>>,
      bitmap |-> Some(<<3>>), visible |-> TRUE],
     [position |-> <<150, 250>>, hotspot |-> <<0, 0>>, size |-> <<1, 1>>,
      bitmap |-> None, visible |-> FALSE]}

SerialInputs == 0 .. MaxCursorCalls

\* A method that panicked did not return: nothing is called after it.
extractor_usable == cursor_last.ret # "panic"

\* ---------------------------------------------------------------- with_cache_size
with_cache_size(max_entries) ==
    /\ cursor_calls = 0 /\ cursor_last.op = "new"
    /\ max_cache_entries' = max_entries
    /\ cursor_last' = CursorCall("with_cache_size", max_entries, "ok")
    /\ UNCHANGED <<current, previous_position, bitmap_cache, cursor_stats, issued,
                   cursor_calls>>
    /\ UNCHANGED outside_cursor

\* ---------------------------------------------------------------- update_position
positioned(info, x, y) == [info EXCEPT !.position = <<x, y>>]

update_position(x, y) ==
    /\ extractor_usable
    /\ previous_position' = current.position
    /\ current' = positioned(current, x, y)
    /\ cursor_stats' = [cursor_stats EXCEPT !.position_updates = @ + 1]
    /\ cursor_last' = CursorCall("update_position", <<x, y>>, "ok")
    /\ cursor_calls' = cursor_calls + 1
    /\ UNCHANGED <<bitmap_cache, max_cache_entries, issued>>
    /\ UNCHANGED outside_cursor

\* ---------------------------------------------------------------- update_visibility
update_visibility(visible) ==
    /\ extractor_usable
    /\ current' = [current EXCEPT !.visible = visible]
    /\ cursor_stats' = IF current.visible # visible
                       THEN [cursor_stats EXCEPT !.visibility_changes = @ + 1]
                       ELSE cursor_stats
    /\ cursor_last' = CursorCall("update_visibility", visible, "ok")
    /\ cursor_calls' = cursor_calls + 1
    /\ UNCHANGED <<previous_position, bitmap_cache, max_cache_entries, issued>>
    /\ UNCHANGED outside_cursor

\* ---------------------------------------------------------------- cache_bitmap
\* Vec::remove(0) panics on an empty Vec: the cache is at capacity while it
\* is empty exactly when max_cache_entries is 0.
remove_panics(cache, max) == Len(cache) >= max /\ cache = <<>>

cache_bitmap(cache, max, serial, bitmap) ==
    Append(IF Len(cache) >= max THEN Tail(cache) ELSE cache, <<serial, bitmap>>)

\* ---------------------------------------------------------------- update_bitmap
\* The fields update_bitmap writes before it calls cache_bitmap.
sized(info, b) ==
    [info EXCEPT !.serial = @ + 1,
                 !.size = <<b.width, b.height>>,
                 !.hotspot = <<b.hotspot_x, b.hotspot_y>>]

update_bitmap(b) ==
    /\ extractor_usable
    /\ IF remove_panics(bitmap_cache, max_cache_entries)
       THEN /\ current' = sized(current, b)
            /\ cursor_last' = CursorCall("update_bitmap", b, "panic")
            /\ UNCHANGED <<bitmap_cache, cursor_stats, issued>>
       ELSE /\ current' = [sized(current, b) EXCEPT !.bitmap = Some(b.bitmap)]
            /\ bitmap_cache' = cache_bitmap(bitmap_cache, max_cache_entries,
                                            current.serial + 1, b.bitmap)
            /\ cursor_stats' = [cursor_stats EXCEPT !.bitmap_updates = @ + 1]
            /\ issued' = Append(issued, <<current.serial + 1, b.bitmap>>)
            /\ cursor_last' = CursorCall("update_bitmap", b, "ok")
    /\ cursor_calls' = cursor_calls + 1
    /\ UNCHANGED <<previous_position, max_cache_entries>>
    /\ UNCHANGED outside_cursor

\* ---------------------------------------------------------------- update_from_raw
\* update_position, update_visibility and, with a bitmap, update_bitmap.
update_from_raw(raw) ==
    LET seen == [positioned(current, raw.position[1], raw.position[2])
                   EXCEPT !.visible = raw.visible]
        b    == [bitmap |-> raw.bitmap[1], width |-> raw.size[1], height |-> raw.size[2],
                 hotspot_x |-> raw.hotspot[1], hotspot_y |-> raw.hotspot[2]]
        moved == [cursor_stats EXCEPT
                    !.position_updates = @ + 1,
                    !.visibility_changes = IF current.visible # raw.visible
                                           THEN @ + 1 ELSE @]
    IN  /\ extractor_usable
        /\ previous_position' = current.position
        /\ IF raw.bitmap = None
           THEN /\ current' = seen
                /\ cursor_stats' = moved
                /\ cursor_last' = CursorCall("update_from_raw", raw, "ok")
                /\ UNCHANGED <<bitmap_cache, issued>>
           ELSE IF remove_panics(bitmap_cache, max_cache_entries)
           THEN /\ current' = sized(seen, b)
                /\ cursor_stats' = moved
                /\ cursor_last' = CursorCall("update_from_raw", raw, "panic")
                /\ UNCHANGED <<bitmap_cache, issued>>
           ELSE /\ current' = [sized(seen, b) EXCEPT !.bitmap = raw.bitmap]
                /\ bitmap_cache' = cache_bitmap(bitmap_cache, max_cache_entries,
                                                current.serial + 1, b.bitmap)
                /\ cursor_stats' = [moved EXCEPT !.bitmap_updates = @ + 1]
                /\ issued' = Append(issued, <<current.serial + 1, b.bitmap>>)
                /\ cursor_last' = CursorCall("update_from_raw", raw, "ok")
        /\ cursor_calls' = cursor_calls + 1
        /\ UNCHANGED max_cache_entries
        /\ UNCHANGED outside_cursor

\* ---------------------------------------------------------------- get_cached_bitmap
\* The first cache entry with the serial, as an Option.
cached(cache, serial) ==
    IF \E k \in DOMAIN cache : cache[k][1] = serial
    THEN LET k == CHOOSE k \in DOMAIN cache :
                      /\ cache[k][1] = serial
                      /\ \A j \in 1 .. k - 1 : cache[j][1] # serial
         IN  Some(cache[k][2])
    ELSE None

get_cached_bitmap(serial) ==
    /\ extractor_usable
    /\ cursor_last' = CursorCall("get_cached_bitmap", serial, cached(bitmap_cache, serial))
    /\ UNCHANGED <<current, previous_position, bitmap_cache, max_cache_entries,
                   cursor_stats, issued, cursor_calls>>
    /\ UNCHANGED outside_cursor

\* ---------------------------------------------------------------- reset
\* CursorExtractor::reset (the name reset is the bitrate controller's): the
\* current state is the default again, serial 0 included; the statistics
\* and the cache size stay.
extractor_reset ==
    /\ extractor_usable
    /\ current' = CursorInfo
    /\ previous_position' = <<0, 0>>
    /\ bitmap_cache' = <<>>
    /\ cursor_last' = CursorCall("reset", None, "ok")
    /\ cursor_calls' = cursor_calls + 1
    /\ UNCHANGED <<max_cache_entries, cursor_stats, issued>>
    /\ UNCHANGED outside_cursor

\* ---------------------------------------------------------------- specification
CursorNext ==
    \/ \E max_entries \in CacheSizes : with_cache_size(max_entries)
    \/ \E serial \in SerialInputs : get_cached_bitmap(serial)
    \/ cursor_calls < MaxCursorCalls /\ \E p \in PositionInputs : update_position(p[1], p[2])
    \/ cursor_calls < MaxCursorCalls /\ \E visible \in BOOLEAN : update_visibility(visible)
    \/ cursor_calls < MaxCursorCalls /\ \E b \in BitmapInputs : update_bitmap(b)
    \/ cursor_calls < MaxCursorCalls /\ \E raw \in RawInputs : update_from_raw(raw)
    \/ cursor_calls < MaxCursorCalls /\ extractor_reset

CursorSpec == Init /\ [][CursorNext]_vars

\* Only the cache: an extractor of some cache size, update_bitmap calls and
\* lookups.
CacheNext ==
    \/ \E max_entries \in CacheSizes : with_cache_size(max_entries)
    \/ \E serial \in SerialInputs : get_cached_bitmap(serial)
    \/ cursor_calls < MaxCursorCalls /\ \E b \in BitmapInputs : update_bitmap(b)

CacheSpec == Init /\ [][CacheNext]_vars

\* ---------------------------------------------------------------- serial
\* A step that is the call op of the extractor.
CursorStep(op) == cursor_calls' = cursor_calls + 1 /\ cursor_last'.op = op

SerialNeverDecreases == current'.serial >= current.serial

SerialGrowsByOne == CursorStep("update_bitmap") => current'.serial = current.serial + 1

SerialKept ==
    (CursorStep("update_position") \/ CursorStep("update_visibility"))
    => current'.serial = current.serial

\* No serial was issued with two different bitmaps.
SerialIdentifiesBitmap ==
    \A i, j \in DOMAIN issued : issued[i][1] = issued[j][1] => issued[i][2] = issued[j][2]

\* C28: the cursor serial never decreases over any sequence of extractor
\* operations, grows by exactly one on each update_bitmap, is unchanged by
\* position and visibility updates, and no serial value identifies two
\* different bitmaps.
C28_SerialMonotonic ==
    /\ [][SerialNeverDecreases /\ SerialGrowsByOne /\ SerialKept]_vars
    /\ []SerialIdentifiesBitmap

\* ---------------------------------------------------------------- cache
\* The n most recently issued pairs, oldest first.
LastIssued(n) == SubSeq(issued, Max(1, Len(issued) - n + 1), Len(issued))

\* The cache holds the last max_cache_entries issued pairs, and a lookup
\* finds exactly their bitmaps.
CacheIsLastIssued ==
    LET recent == LastIssued(max_cache_entries)
    IN  /\ Len(bitmap_cache) <= max_cache_entries
        /\ bitmap_cache = recent
        /\ \A serial \in SerialInputs :
              cached(bitmap_cache, serial)
              = IF \E k \in DOMAIN recent : recent[k][1] = serial
                THEN Some(recent[CHOOSE k \in DOMAIN recent : recent[k][1] = serial][2])
                ELSE None
        /\ cursor_last.op = "get_cached_bitmap"
           => cursor_last.ret = cached(bitmap_cache, cursor_last.arg)

\* C29: for an extractor built with cache size N, after any sequence of
\* update_bitmap calls (each of which returns) the cache holds at most N
\* entries, exactly the N most recently issued (serial, bitmap) pairs, and
\* get_cached_bitmap returns the bitmap for those serials and None for
\* every other serial.
C29_CacheHoldsLastIssued == cursor_last.ret # "panic" /\ CacheIsLastIssued

\* ======================================================================
\* Part 7: PortalClipboardSink::write_file
\*         (crates/lamco-portal/src/clipboard_sink.rs)
\* ======================================================================
\* write_file is an async method on &self: calls of several tasks on the
\* shared sink interleave at its await points (create_dir_all, File::create,
\* write_all/flush).  Paths and file names are sequences of characters; for
\* a &str, to_string_lossy copies the characters.  create_dir_all and the
\* writes are taken to succeed.  Nothing in the program removes a file.

\* ---------------------------------------------------------------- bounds
MaxWriteCalls == 3

\* the number of suffixed candidates the loop tries
conflict_limit == 1000

\* ---------------------------------------------------------------- inputs
PathInputs ==
    {<<"a", ".", "t">>,
     <<"x", "/", "a", ".", "t">>,
     <<"a", ":", "b">>,
     <<".", ".">>}

DataInputs == {<<1>>, <<2>>}

\* How many suffixed names of one file another program left in the directory.
FilledInputs == {conflict_limit - 1, conflict_limit}

\* ---------------------------------------------------------------- file names
IndexOfChar(s, c) == CHOOSE i \in DOMAIN s : s[i] = c /\ \A j \in 1 .. i - 1 : s[j] # c

LastIndexOfChar(s, c) == CHOOSE i \in DOMAIN s : s[i] = c /\ \A j \in i + 1 .. Len(s) : s[j] # c

HasChar(s, c) == \E i \in DOMAIN s : s[i] = c

RECURSIVE Components(_)
\* the path split at '/'
Components(path) ==
    IF HasChar(path, "/")
    THEN LET i == IndexOfChar(path, "/")
         IN  <<SubSeq(path, 1, i - 1)>> \o Components(SubSeq(path, i + 1, Len(path)))
    ELSE <<path>>

IsNormal(component) == component # <<>> /\ component # <<".">>

\* Path::file_name: the last component, unless there is none or it is ".."
file_name(path) ==
    LET normal == SelectSeq(Components(path), IsNormal)
    IN  IF normal = <<>> \/ normal[Len(normal)] = <<".", ".">>
        THEN None
        ELSE Some(normal[Len(normal)])

\* "NUL" stands for the character '\0'
Dangerous == {"/", "\\", "NUL", ":", "*", "?", "\"", "<", ">", "|"}

safe_filename(filename) ==
    [i \in DOMAIN filename |-> IF filename[i] \in Dangerous THEN "_" ELSE filename[i]]

\* Path::file_stem: the name up to its last '.', the whole name when it has
\* no '.' or only a leading one
file_stem(name) ==
    IF ~HasChar(name, ".") \/ LastIndexOfChar(name, ".") = 1
    THEN name
    ELSE SubSeq(name, 1, LastIndexOfChar(name, ".") - 1)

\* Path::extension formatted as ".{}", or "" without an extension
extension(name) ==
    IF ~HasChar(name, ".") \/ LastIndexOfChar(name, ".") = 1
    THEN <<>>
    ELSE SubSeq(name, LastIndexOfChar(name, "."), Len(name))

DigitChars == <<"0", "1", "2", "3", "4", "5", "6", "7", "8", "9">>

RECURSIVE Digits(_)
\* the decimal digits "{}" formats a counter with
Digits(n) ==
    IF n < 10 THEN <<DigitChars[n + 1]>>
    ELSE Digits(n \div 10) \o <<DigitChars[(n % 10) + 1]>>

\* format!("{} ({}){}", stem, counter, ext)
candidate(name, counter) ==
    file_stem(name) \o <<" ", "(">> \o Digits(counter) \o <<")">> \o extension(name)

\* The sanitised names of the inputs, and their candidates by counter.
SafeNames == {safe_filename(file_name(path)[1]) : path \in {p \in PathInputs : file_name(p) # None}}

candidates == [name \in SafeNames |-> [counter \in 1 .. conflict_limit |-> candidate(name, counter)]]

\* The file another program keeps in the directory, and the names it took
\* when it holds k suffixed copies of it.
other_file == <<"a", ".", "t">>

other_files ==
    [k \in FilledInputs |->
        {other_file} \cup {candidates[other_file][counter] : counter \in 1 .. k}]

\* Path::exists
exists(dir, filled, name) ==
    name \in DOMAIN dir \/ (filled \in FilledInputs /\ name \in other_files[filled])

\* The counters whose candidate does not exist.
free_counters(dir, filled, name) ==
    {counter \in 1 .. conflict_limit : ~exists(dir, filled, candidates[name][counter])}

\* The loop over the candidates, counter = 1, 2, ..: the first one that does
\* not exist; None when the counter passes conflict_limit.
first_free(dir, filled, name) ==
    LET free == free_counters(dir, filled, name)
    IN  IF free = {}
        THEN None
        ELSE Some(candidates[name][CHOOSE counter \in free : \A other \in free : counter <= other])

\* The path the conflict handling chooses.
final_path(dir, filled, name) ==
    IF exists(dir, filled, name)
    THEN first_free(dir, filled, name)
    ELSE Some(name)

\* ---------------------------------------------------------------- write_file
\* The call up to its first await: the file name is taken from the path and
\* sanitised.
write_file(t, path, data) ==
    /\ writers[t].pc \in {"idle", "returned"}
    /\ writers' = [writers EXCEPT ![t] =
          IF file_name(path) = None
          THEN [pc |-> "returned", path |-> path, data |-> data, final_path |-> None,
                result |-> "InvalidState"]
          ELSE [pc |-> "create_dir_all", path |-> path, data |-> data, final_path |-> None,
                result |-> None]]
    /\ write_calls' = write_calls + 1
    /\ UNCHANGED <<downloads, others, created>>
    /\ UNCHANGED outside_file

\* create_dir_all returned: the existence checks, which run without an await.
choose_path(t) ==
    LET name == safe_filename(file_name(writers[t].path)[1])
        path == final_path(downloads, others, name)
    IN  /\ writers[t].pc = "create_dir_all"
        /\ writers' = [writers EXCEPT ![t] =
              IF path = None
              THEN [@ EXCEPT !.pc = "returned", !.result = "Backend"]
              ELSE [@ EXCEPT !.pc = "create", !.final_path = path]]
        /\ UNCHANGED <<downloads, others, write_calls, created>>
        /\ UNCHANGED outside_file

\* tokio::fs::File::create: creates the file, or truncates the one there is
create(t) ==
    LET path == writers[t].final_path[1]
    IN  /\ writers[t].pc = "create"
        /\ downloads' = [name \in DOMAIN downloads \cup {path} |->
                            IF name = path THEN <<>> ELSE downloads[name]]
        /\ created' = Append(created,
                             [task |-> t, path |-> path,
                              truncated |-> IF path \in DOMAIN downloads
                                            THEN Some(downloads[path]) ELSE None])
        /\ writers' = [writers EXCEPT ![t].pc = "write_all"]
        /\ UNCHANGED <<others, write_calls>>
        /\ UNCHANGED outside_file

\* write_all and flush through the task's own handle, from offset 0
write_all(t) ==
    /\ writers[t].pc = "write_all"
    /\ downloads' = [downloads EXCEPT ![writers[t].final_path[1]] = writers[t].data]
    /\ writers' = [writers EXCEPT ![t].pc = "returned", ![t].result = "Ok"]
    /\ UNCHANGED <<others, write_calls, created>>
    /\ UNCHANGED outside_file

\* Another program left other_file and its first k suffixed names in the
\* directory before the sink wrote anything.
directory_filled(k) ==
    /\ others = 0 /\ write_calls = 0
    /\ others' = k
    /\ UNCHANGED <<downloads, writers, write_calls, created>>
    /\ UNCHANGED outside_file

\* ---------------------------------------------------------------- specification
FileNext ==
    \/ \E k \in FilledInputs : directory_filled(k)
    \/ \E t \in Tasks :
          \/ /\ write_calls < MaxWriteCalls
             /\ \E path \in PathInputs, data \in DataInputs : write_file(t, path, data)
          \/ choose_path(t)
          \/ create(t)
          \/ write_all(t)

FileSpec == Init /\ [][FileNext]_vars

\* ---------------------------------------------------------------- conflicts
\* No File::create found a file under the name it created.
NeverOverwrites == \A k \in DOMAIN created : created[k].truncated = None

\* Every File::create made a file of its own.
DistinctFiles ==
    \A i, j \in DOMAIN created : i # j => created[i].path # created[j].path

\* A call that chose a path chose the sanitised name, or the candidate of
\* the smallest counter whose name did not exist (names are never removed,
\* so the smaller ones still exist).
SmallestFreeName ==
    \A t \in Tasks :
        writers[t].final_path # None =>
            LET name == safe_filename(file_name(writers[t].path)[1])
                path == writers[t].final_path[1]
            IN  \/ path = name
                \/ \E counter \in 1 .. conflict_limit :
                      /\ path = candidates[name][counter]
                      /\ exists(downloads, others, name)
                      /\ \A smaller \in 1 .. counter - 1 :
                            exists(downloads, others, candidates[name][smaller])

\* A call fails with the backend error only when the name and all its
\* candidates exist, and it has chosen and created nothing.
FailsWhenAllExist ==
    \A t \in Tasks :
        writers[t].result = "Backend" =>
            LET name == safe_filename(file_name(writers[t].path)[1])
            IN  /\ writers[t].final_path = None
                /\ exists(downloads, others, name)
                /\ free_counters(downloads, others, name) = {}

\* C30: write_file never overwrites an existing file: when the sanitised
\* name exists it writes to '<stem> (N)<ext>' for the smallest N in 1..1000
\* whose name does not exist, so repeated writes of one name produce
\* distinct files, and it fails with a backend error, writing nothing, when
\* all 1000 candidates exist.
C30_NeverOverwrites ==
    NeverOverwrites /\ DistinctFiles /\ SmallestFreeName /\ FailsWhenAllExist

\* ======================================================================
\* Part 8: percent_decode (crates/lamco-portal/src/clipboard_sink.rs)
\* ======================================================================
\* Strings are sequences of chars, a char is its code point.  The crate has
\* no encoder: the URIs it decodes come from the application that offered
\* the files, percent-encoded as RFC 3986 prescribes (the UTF-8 bytes of
\* every char outside the unreserved set and '/', as %XX).

\* ---------------------------------------------------------------- bounds
MaxPathLen == 3

\* ---------------------------------------------------------------- inputs
\* '/', 'a', ' ', '%', U+00E9 (two UTF-8 bytes), U+20AC (three UTF-8 bytes)
PathChars == {47, 97, 32, 37, 233, 8364}

\* '%', '2', '+', 'F', 'g'
UriChars == {37, 50, 43, 70, 103}

StringsOver(chars) == UNION {[1 .. n -> chars] : n \in 0 .. MaxPathLen}

\* ---------------------------------------------------------------- percent-encoding
utf8(c) ==
    IF c < 128 THEN <<c>>
    ELSE IF c < 2048 THEN <<192 + (c \div 64), 128 + (c % 64)>>
    ELSE <<224 + (c \div 4096), 128 + ((c \div 64) % 64), 128 + (c % 64)>>

\* the upper-case hexadecimal digit of n, as a char
hex_char(n) == IF n < 10 THEN 48 + n ELSE 55 + n

\* ALPHA / DIGIT / "-" / "." / "_" / "~", and the path separator
unreserved(c) ==
    \/ c \in 48 .. 57 \/ c \in 65 .. 90 \/ c \in 97 .. 122
    \/ c \in {45, 46, 95, 126, 47}

RECURSIVE escaped(_)
escaped(bytes) ==
    IF bytes = <<>> THEN <<>>
    ELSE <<37, hex_char(Head(bytes) \div 16), hex_char(Head(bytes) % 16)>>
         \o escaped(Tail(bytes))

RECURSIVE percent_encode(_)
percent_encode(path) ==
    IF path = <<>> THEN <<>>
    ELSE (IF unreserved(Head(path)) THEN <<Head(path)>> ELSE escaped(utf8(Head(path))))
         \o percent_encode(Tail(path))

\* ---------------------------------------------------------------- percent_decode
\* char::to_digit(16), None for a char that is no hexadecimal digit
to_digit(c) ==
    IF c \in 48 .. 57 THEN Some(c - 48)
    ELSE IF c \in 65 .. 70 THEN Some(c - 55)
    ELSE IF c \in 97 .. 102 THEN Some(c - 87)
    ELSE None

\* u8::from_str_radix(hex, 16) for a string of at most two chars: an
\* optional '+' and at least one digit
from_str_radix(hex) ==
    IF Len(hex) = 1 /\ to_digit(hex[1]) # None THEN to_digit(hex[1])
    ELSE IF Len(hex) = 2 /\ to_digit(hex[1]) # None /\ to_digit(hex[2]) # None
    THEN Some(16 * to_digit(hex[1])[1] + to_digit(hex[2])[1])
    ELSE IF Len(hex) = 2 /\ hex[1] = 43 /\ to_digit(hex[2]) # None
    THEN to_digit(hex[2])
    ELSE None

RECURSIVE percent_decode(_)
percent_decode(input) ==
    IF input = <<>> THEN <<>>
    ELSE IF Head(input) = 37
    THEN LET hex  == SubSeq(input, 2, Min(3, Len(input)))
             rest == SubSeq(input, 2 + Len(hex), Len(input))
             byte == from_str_radix(hex)
         IN  \* char::from(byte): the char whose code point is the byte
             (IF byte # None THEN <<byte[1]>> ELSE <<37>> \o hex) \o percent_decode(rest)
    ELSE <<Head(input)>> \o percent_decode(Tail(input))

\* ---------------------------------------------------------------- calls
\* The function is pure: one call from the initial state shows all it does.
\* percent_decode of the encoded form of a path
DecodeEncoded(path) ==
    /\ NothingDecoded
    /\ decode_call' = [path |-> Some(path), input |-> percent_encode(path),
                       output |-> percent_decode(percent_encode(path))]
    /\ UNCHANGED outside_uri

\* percent_decode of what follows "file://" on a line of a URI list
DecodeLine(input) ==
    /\ NothingDecoded
    /\ decode_call' = [path |-> None, input |-> input, output |-> percent_decode(input)]
    /\ UNCHANGED outside_uri

DecodeNext ==
    \/ \E path \in StringsOver(PathChars) : DecodeEncoded(path)
    \/ \E input \in StringsOver(UriChars) : DecodeLine(input)

DecodeSpec == Init /\ [][DecodeNext]_vars

\* C31: percent-decoding is the inverse of percent-encoding: for every
\* path x, percent_decode of the percent-encoded form of x returns x.
C31_DecodeInvertsEncode ==
    decode_call.path # None => decode_call.output = decode_call.path[1]

\* ======================================================================
\* Part 9: further properties of the components above
\* ======================================================================

\* ---------------------------------------------------------------- commands
\* The positions in the command channel of the commands of one kind for
\* one stream.
Sent(kind, id) == {i \in DOMAIN cmds : cmds[i].cmd = kind /\ cmds[i].stream_id = id}

OneCreateOneDestroy ==
    \A id \in StreamIdArgs :
        /\ Cardinality(Sent("CreateStream", id)) <= 1
        /\ Cardinality(Sent("DestroyStream", id)) <= 1

\* A DestroyStream follows the CreateStream of its stream, whose handle
\* create_stream returned.
DestroyAfterCreated ==
    \A id \in StreamIdArgs : \A d \in Sent("DestroyStream", id) :
        /\ \E c \in Sent("CreateStream", id) : c < d
        /\ id \in HandlesHeld

\* Shutdown is the last command, and every stream created on this thread
\* has its DestroyStream before it.
ShutdownAfterDestroys ==
    \A s \in DOMAIN cmds :
        cmds[s].cmd = "Shutdown" =>
            /\ s = Len(cmds)
            /\ \A id \in HandlesHeld :
                  Sent("CreateStream", id) # {} => \E d \in Sent("DestroyStream", id) : d < s

\* The channel is first-in first-out: a step appends one command to it, or
\* a new thread starts with an empty channel.
SendOrderKept ==
    \/ cmds' = cmds
    \/ \E c \in {CreateStreamCmd(next_stream_id, info) : info \in StreamInfos}
              \cup {DestroyStreamCmd(id) : id \in StreamIdArgs} \cup {ShutdownCmd} :
          cmds' = Append(cmds, c)
    \/ cmds' = <<>> /\ thread_manager' # thread_manager

\* C32: for every stream id the manager sends the capture thread at most
\* one CreateStream and at most one DestroyStream, DestroyStream{id} only
\* after CreateStream{id} was sent and answered with success, and Shutdown
\* only after the DestroyStream of every stream active at shutdown; the
\* commands reach the thread in the order they were sent.
C32_CommandProtocol ==
    /\ [](OneCreateOneDestroy /\ DestroyAfterCreated /\ ShutdownAfterDestroys)
    /\ [][SendOrderKept]_vars

\* A stream was created, shutdown destroyed it and sent Shutdown.
C32_ShutdownDestroyedStream ==
    /\ state = "Disconnected" /\ pc = "return" /\ last.op = "shutdown" /\ ~warned
    /\ cmds = <<CreateStreamCmd(0, [node_id |-> 42]), DestroyStreamCmd(0), ShutdownCmd>>

\* ---------------------------------------------------------------- C33
\* C33: queued clipboard data is never discarded undelivered by a concurrent
\* transfer: the entry the task removes after a successful SelectionWrite is
\* the one whose bytes it wrote, so bytes queued by write_clipboard while the
\* transfer was being served stay pending.
C33_RemovesWhatItWrote ==
    (/\ sink_last.op = "write_selection_data"
     /\ sink_last.outcome = "ok"
     /\ sink_last.event.mime_type \in DOMAIN sink_last.pending)
        => sink_last.pending[sink_last.event.mime_type].data = sink_last.event.data

\* ---------------------------------------------------------------- C34
FailedAfterPreChecks ==
    /\ last.op = "create_stream"
    /\ last.ret.kind \in {"SendFailed", "ThreadCommunicationFailed", "StreamCreationFailed"}

\* C34: a create_stream call that fails after the pre-checks leaves no trace
\* of the stream: neither a stream handle nor a frame sender is registered
\* for the id it allocated.
C34_FailedCreateLeavesNoTrace ==
    FailedAfterPreChecks =>
        /\ (next_stream_id - 1) \notin DOMAIN streams
        /\ (next_stream_id - 1) \notin DOMAIN frame_receivers

\* ---------------------------------------------------------------- C35
RemoveOfActiveFailed ==
    /\ last.op = "remove_stream"
    /\ last.arg \in DOMAIN last.pre.streams
    /\ last.ret.kind \in {"SendFailed", "DestroyFailed"}

\* C35: remove_stream is atomic with respect to failure: when remove_stream(id)
\* on an active stream returns an error, the stream is still registered, so
\* streams() still lists it and the removal can be retried.
C35_FailedRemoveKeepsStream ==
    RemoveOfActiveFailed =>
        /\ last.arg \in DOMAIN streams
        /\ streams[last.arg] = last.pre.streams[last.arg]

\* ---------------------------------------------------------------- C36
CloseCalls(fd) == Cardinality({i \in DOMAIN fd_closes : fd_closes[i] = fd})

\* The session that got fd: its create_session has returned, and the handle,
\* if one was made, is no longer held.
SessionOver(fd) ==
    LET session_id == CHOOSE s \in 1 .. Len(invocations) : PipeWireFd(s) = fd
    IN  /\ (session_id = Len(invocations) => step = "idle")
        /\ (session_id \in DOMAIN handles => handles[session_id].owner # "held")

\* C36: the transport FD is closed exactly once on every path: never twice,
\* and once the session that got it is over (create_session failed after the
\* FD was opened, or the handle was closed or dropped) it has been closed.
C36_FdClosedExactlyOnce ==
    \A fd \in fd_opened :
        /\ CloseCalls(fd) <= 1
        /\ SessionOver(fd) => CloseCalls(fd) = 1

\* ---------------------------------------------------------------- C37
SecondStartRejected ==
    /\ sink_last'.op = "start_transfer_listener"
    /\ sink_last'.ret = "transfer listener already started"

\* C37: a start_transfer_listener call that is rejected because the listener
\* was already started has no effect: no further portal listener is started,
\* the one handler task is where it was and the events waiting for it are
\* the same.
C37_SecondStartHasNoEffect ==
    [][SecondStartRejected =>
          /\ portal_listeners' = portal_listeners
          /\ UNCHANGED <<rx_taken, listener, transfer_rx, event, pending_data>>]_vars

\* ------------------------------------------------------------------------
\* Part 10: the file cache of PortalClipboardSink
\* (crates/lamco-portal/src/clipboard_sink.rs)
\* ------------------------------------------------------------------------
\* ---------------------------------------------------------------- bounds
MaxLines == 2

\* ---------------------------------------------------------------- inputs
\* "/a", "/b", "/d/c" and "/%61", which decodes to "/a".
FilePaths == {<<47, 97>>, <<47, 98>>, <<47, 100, 47, 99>>, <<47, 37, 54, 49>>}

\* The lines of a text/uri-list, already trimmed: a blank line, a comment, a
\* file:// URI with what follows the prefix, a URI of another scheme.
UriLines ==
    {[kind |-> "blank", rest |-> <<>>], [kind |-> "comment", rest |-> <<>>],
     [kind |-> "other", rest |-> <<47, 97>>]}
        \cup {[kind |-> "file", rest |-> p] : p \in FilePaths}

UriLists == UNION {[1 .. n -> UriLines] : n \in 0 .. MaxLines}

\* The files that exist when the list is parsed or a chunk is read.
Filesystems == SUBSET {<<47, 97>>, <<47, 98>>, <<47, 100, 47, 99>>}

\* read_local_clipboard of the two MIME types: Err, or Ok with bytes that
\* are or are not UTF-8.
ClipboardReads == {"err", "invalid_utf8", "ok"}

\* ---------------------------------------------------------------- parse_and_cache_files
\* path.file_name() of an absolute path without a trailing slash.
info_name(path) == SubSeq(path, LastIndexOfChar(path, 47) + 1, Len(path))

FileInfo(path) == [name |-> info_name(path), path |-> path]

RECURSIVE parse_files(_, _)
\* The paths of the lines that are file:// URIs of files that can be stat'd.
parse_files(uri_list, fs) ==
    IF uri_list = <<>> THEN <<>>
    ELSE LET line == Head(uri_list)
             path == percent_decode(line.rest)
             rest == parse_files(Tail(uri_list), fs)
         IN  IF line.kind = "file" /\ path \in fs THEN <<path>> \o rest ELSE rest

file_infos(paths) == [i \in DOMAIN paths |-> FileInfo(paths[i])]

\* ---------------------------------------------------------------- get_file_list
\* The cache after both clipboard reads failed: get_file_list returns an
\* empty list before it reaches parse_and_cache_files.
cache_when_unreadable(cache) == cache

get_file_list(uri_read, gnome_read, uri_list, fs) ==
    LET read == IF uri_read # "err" THEN uri_read ELSE gnome_read
        paths == parse_files(uri_list, fs)
    IN  /\ IF read = "err"
           THEN /\ cached_files' = cache_when_unreadable(cached_files)
                /\ reported' = Some(<<>>)
                /\ cache_last' = [op |-> "get_file_list", ret |-> Ok(<<>>)]
           ELSE IF read = "invalid_utf8"
           THEN /\ cache_last' = [op |-> "get_file_list", ret |-> Err("InvalidUtf8", 0)]
                /\ UNCHANGED <<cached_files, reported>>
           ELSE /\ cached_files' = paths
                /\ reported' = Some(file_infos(paths))
                /\ cache_last' = [op |-> "get_file_list", ret |-> Ok(file_infos(paths))]
        /\ UNCHANGED outside_cache

\* ---------------------------------------------------------------- read_file_chunk
\* Ok carries the path of the file the chunk was read from.
read_file_chunk(index, fs) ==
    /\ cache_last' =
          [op |-> "read_file_chunk", index |-> index,
           ret |-> IF index >= Len(cached_files)
                   THEN Err("InvalidState", "file index out of range")
                   ELSE IF cached_files[index + 1] \notin fs
                   THEN Err("Backend", "failed to open file")
                   ELSE Ok(cached_files[index + 1])]
    /\ UNCHANGED <<cached_files, reported>>
    /\ UNCHANGED outside_cache

\* ---------------------------------------------------------------- specification
CacheFileNext ==
    \/ \E uri_read \in ClipboardReads :
          \E gnome_read \in (IF uri_read = "err" THEN ClipboardReads ELSE {"err"}) :
             LET parsed == "ok" \in {uri_read, gnome_read}
             IN  \E uri_list \in (IF parsed THEN UriLists ELSE {<<>>}),
                    fs \in (IF parsed THEN Filesystems ELSE {{}}) :
                    get_file_list(uri_read, gnome_read, uri_list, fs)
    \/ \E index \in 0 .. MaxLines, fs \in Filesystems : read_file_chunk(index, fs)

FileCacheSpec == Init /\ [][CacheFileNext]_vars

\* ---------------------------------------------------------------- C38
\* C38: the file cache mirrors the latest get_file_list result: a
\* read_file_chunk(index) that succeeds has an index below the length of the
\* list the latest get_file_list returned and reads the file reported at
\* that index; after a get_file_list that returned an empty list every
\* read_file_chunk fails with an invalid-state error.
C38_CacheMirrorsLatestList ==
    (cache_last.op = "read_file_chunk" /\ reported # None) =>
        /\ cache_last.ret.kind = "Ok" =>
              /\ cache_last.index < Len(reported[1])
              /\ cache_last.ret.val = reported[1][cache_last.index + 1].path
        /\ reported[1] = <<>> => cache_last.ret.kind = "InvalidState"

\* ------------------------------------------------------------------------
\* Part 11: further properties of the BitrateController
\* ------------------------------------------------------------------------
\* ---------------------------------------------------------------- C39
\* The average encode time of the window is below half the frame budget.
EncodesFast(cfg, history) ==
    2 * (SumOf(history, "encode_time_us") \div Len(history)) < 1000000 \div cfg.target_fps

\* One record_frame call: the bitrate falls only with congestion > 0.3, and
\* then to the clamped product with 1 - 0.2 * congestion; it rises only with
\* congestion < 0.1 and a fast encode, and then to the clamped product with
\* 1.1; a call made less than 100 ms after the last adjustment leaves it.
DirectionFollowsCongestion ==
    CtrlStep("record_frame") =>
        LET cfg == config[1]
            lower == u32_lt(current_bitrate', current_bitrate)
            higher == u32_lt(current_bitrate, current_bitrate')
        IN  /\ lower => /\ congestion_level > 300
                        /\ current_bitrate' =
                              clamp(scaled(current_bitrate, 5000 - congestion_level, 5000),
                                    cfg.min_bitrate_kbps, cfg.max_bitrate_kbps)
            /\ higher => /\ congestion_level < 100
                         /\ EncodesFast(cfg, frame_history')
                         /\ current_bitrate' =
                               clamp(scaled(current_bitrate, 11, 10),
                                     cfg.min_bitrate_kbps, cfg.max_bitrate_kbps)
            /\ congestion_level > 300 => ~higher
            /\ ctrl_last'.arg < adjustment_interval_ms => current_bitrate' = current_bitrate

\* C39: in every bitrate adjustment the direction follows congestion: the
\* bitrate is reduced only when congestion > 0.3, raised only when
\* congestion < 0.1 and the encode is fast, otherwise unchanged; it never
\* increases while congestion is above 0.3, and record_frame calls made less
\* than 100 ms after the last adjustment do not change it.
C39_DirectionFollowsCongestion == [][DirectionFollowsCongestion]_vars

\* ---------------------------------------------------------------- C40
\* the calls that raise the congestion level, then the calls of the recovery
MaxRaisingCalls == 5

MaxRecoveryCalls == 20

\* loss below 1 % and an RTT below the preset's target
GoodFeedback(preset) == {<<0, 0>>, <<9, target_rtt(preset) - 1>>}

\* Only calls that raise the congestion level were made so far.
Raising ==
    \/ ctrl_last.op \in {"new", "record_dropped_frame"}
    \/ ctrl_last.op = "record_network_feedback" /\ ctrl_last.arg = <<150, 300>>

\* Dropped frames and bad feedback bring the congestion level up; from then
\* on every feedback is good and no frame is dropped.
RecoveryNext ==
    \/ \E cfg \in PresetConfigs, build \in Builds : new(cfg, build)
    \/ Raising /\ calls < MaxRaisingCalls /\ record_dropped_frame
    \/ Raising /\ calls < MaxRaisingCalls /\ record_network_feedback(150, 300)
    \/ /\ config # None
       /\ calls < MaxRaisingCalls + MaxRecoveryCalls
       /\ \E feedback \in GoodFeedback(config[1].quality_preset) :
             record_network_feedback(feedback[1], feedback[2])
    \/ calls < MaxRaisingCalls + MaxRecoveryCalls /\ should_skip_frame

RecoverySpec == Init /\ [][RecoveryNext]_vars

\* The good feedback calls still needed to bring the level c to 0.
CallsToClear(c) == (c + 49) \div 50

GoodFeedbackStep ==
    /\ CtrlStep("record_network_feedback")
    /\ ctrl_last'.arg[1] < 10
    /\ ctrl_last'.arg[2] < target_rtt(config[1].quality_preset)

\* A good feedback takes 0.05 off the level, down to 0, and with it one off
\* the calls still needed; should_skip_frame leaves the level and answers
\* false when the level is below 0.5.
RecoveryStep ==
    /\ GoodFeedbackStep =>
          /\ congestion_level' = Max(congestion_level - 50, 0)
          /\ CallsToClear(congestion_level') = Max(CallsToClear(congestion_level) - 1, 0)
    /\ CtrlStep("should_skip_frame") =>
          /\ congestion_level' = congestion_level
          /\ congestion_level < 500 => ctrl_last'.ret = FALSE

\* C40: congestion always recovers: while every feedback reports loss below
\* 1 % and an RTT below the preset's target and no frame is dropped, the
\* level falls by 0.05 per feedback call, so from any level (at most 1.0,
\* that is 20 calls from 0) it is 0 after at most 20 calls and stays 0, and
\* once it is below 0.5 should_skip_frame does not return true.
C40_CongestionRecovers ==
    /\ [](congestion_level \in 0 .. 1000 /\ CallsToClear(congestion_level) <= 20)
    /\ [][RecoveryStep]_vars

\* From the level 1.0 that five dropped frames leave, the twentieth good
\* feedback clears the congestion.
C40_ClearedByTwentiethCall ==
    /\ stats.frames_dropped = 5
    /\ calls = 25
    /\ ctrl_last.op = "record_network_feedback"
    /\ congestion_level = 0
    /\ stats.frames_skipped = 0

====
